---- MODULE Spec2Model ----
(***************************************************************************)
(* Football IQ: the answer-matching and scoring engine.                    *)
(*                                                                         *)
(* Strings are sequences of UTF-16 code units.  Each code unit is written  *)
(* as a short token; the tokens below stand for one representative of      *)
(* every class of character the normalizer tells apart.                    *)
(***************************************************************************)
EXTENDS Naturals, Integers, Sequences, FiniteSets, TLC

VARIABLES
    nIn, nOut, nOut2, nPc,                          \* normalizer run
    guess, player, result, mPc,                     \* one validatePlayerGuess call
    totalClubs, clubsRevealed, wrongGuesses, score, sPc,  \* one scoring call
    hintsRevealed, transferScore, tPc,              \* one transfer scoring call
    databaseInstance, isInitialized, initializationPromise,   \* connection.ts
    promises, nextHandle, callPc, callPromise, callResult, calls,
    user_progress, user_stats, user_purchased_packs,          \* tables
    txnSnapshot, recPc, recArgs, recLocal, answers,           \* recordQuestionAnswer
    uqArgs, uqResult,                                         \* getUnansweredQuestion
    screenMode, screenError, careersLength, currentClubIndex, \* a game screen
    screenHints, guessTyped, screenWrongGuesses, isComplete,
    showResult, screenFinalScore, pendingRecords, recordCalls,
    markPc, markPack, markCalls, purchasedList,   \* markPackAsPurchased, getPurchasedPacks
    dbTables, seedTables, sync_metadata, setupLog,   \* initializeDatabase, seedDatabase
    aCorrect, aTotal, aNewly, aRate, aPc,   \* calculateAccuracyRate of the scoring module
    closePc, closeHandle, closedHandles, closeCalls    \* closeDatabaseAsync, resetDatabaseAsync

normVars  == <<nIn, nOut, nOut2, nPc>>
matchVars == <<guess, player, result, mPc>>
scoreVars == <<totalClubs, clubsRevealed, wrongGuesses, score, sPc,
               hintsRevealed, transferScore, tPc>>
connVars == <<databaseInstance, isInitialized, initializationPromise,
              promises, nextHandle, callPc, callPromise, callResult, calls>>
progressVars == <<user_progress, user_stats, user_purchased_packs,
                  txnSnapshot, recPc, recArgs, recLocal, answers,
                  uqArgs, uqResult>>
roundVars == <<screenMode, screenError, careersLength, currentClubIndex,
               screenHints, guessTyped, screenWrongGuesses, isComplete,
               showResult, screenFinalScore, pendingRecords, recordCalls>>
purchaseVars == <<markPc, markPack, markCalls, purchasedList>>
setupVars == <<dbTables, seedTables, sync_metadata, setupLog>>
accuracyVars == <<aCorrect, aTotal, aNewly, aRate, aPc>>
closeVars == <<closePc, closeHandle, closedHandles, closeCalls>>
vars == <<normVars, matchVars, scoreVars, connVars, progressVars, roundVars,
         purchaseVars,
         setupVars,
         accuracyVars,
         closeVars>>

\* what an action of one component leaves alone
notNorm == <<matchVars, scoreVars, connVars, progressVars, roundVars,
    purchaseVars,
    setupVars,
    accuracyVars,
    closeVars>>
notMatch == <<normVars, scoreVars, connVars, progressVars, roundVars,
    purchaseVars,
    setupVars,
    accuracyVars,
    closeVars>>
notScore == <<normVars, matchVars, connVars, progressVars, roundVars,
    purchaseVars,
    setupVars,
    accuracyVars,
    closeVars>>
notConn == <<normVars, matchVars, scoreVars, progressVars, roundVars,
    purchaseVars,
    setupVars,
    accuracyVars,
    closeVars>>
notProgress == <<normVars, matchVars, scoreVars, connVars, roundVars,
    purchaseVars,
    setupVars,
    accuracyVars,
    closeVars>>
notRound == <<normVars, matchVars, scoreVars, connVars, progressVars,
    purchaseVars,
    setupVars,
    accuracyVars,
    closeVars>>
notPurchase == <<normVars, matchVars, scoreVars, connVars, progressVars, roundVars,
    setupVars,
    accuracyVars,
    closeVars>>
\* markPackAsPurchased writes a table of the progress component too
notPurchaseProgress == <<normVars, matchVars, scoreVars, connVars, roundVars,
    setupVars, accuracyVars, closeVars>>
notSetup == <<normVars, matchVars, scoreVars, connVars, progressVars, roundVars, purchaseVars,
    accuracyVars,
    closeVars>>
\* the setup functions write the tables of the progress component too
notSetupProgress == <<normVars, matchVars, scoreVars, connVars, roundVars,
    purchaseVars,
    accuracyVars,
    closeVars>>
notAccuracy == <<normVars, matchVars, scoreVars, connVars, progressVars, roundVars, purchaseVars, setupVars,
    closeVars>>
notClose == <<normVars, matchVars, scoreVars, connVars, progressVars, roundVars, purchaseVars, setupVars, accuracyVars>>

----------------------------------------------------------------------------
(* Bounds *)

MaxLen == 3          \* longest raw string fed to the normalizer alone
MaxNameParts == 3    \* a player name is at most this many parts
MaxGuessParts == 2   \* a guess is at most this many parts
MaxAliases == 2      \* longest aliases array
MaxClubs == 10       \* longest career
MaxWrong == 6        \* most wrong guesses passed to the scorer
NumCallers == 3      \* call sites that may be inside getDatabase at once
MaxCalls == 4        \* getDatabase calls made in one run
MaxAnswers == 3      \* most rows recorded in user_progress
MaxCareers == 3      \* most clubs in the career of the player of a round
MaxPending == 1      \* recordQuestionAnswer calls of a screen in flight at once
MaxScreenWrong == 6  \* wrong guesses followed in one round
MaxRecordCalls == 2  \* recordQuestionAnswer calls followed in one round
MaxMarkCalls == 3    \* markPackAsPurchased calls made in one run
MaxSetupRuns == 4    \* initializeDatabase and seedDatabase calls made in one run
MaxCloseCalls == 1    \* closeDatabaseAsync and resetDatabaseAsync calls made in one run
MaxPrevious == 10    \* largest previousCorrect and previousTotal passed to calculateAccuracyRate

----------------------------------------------------------------------------
(* Characters *)

LowerAZ == {"e", "i", "l", "o", "t", "z"}     \* a-z
UpperAZ == {"E", "O"}                    \* A-Z
Digits == {"7"}                          \* 0-9
CombiningMark == "~"                     \* U+0308, in the range U+0300-U+036F
PrecomposedUpper == {"O~"}               \* U+00D6, NFD = O U+0308
PrecomposedLower == {"o~"}               \* U+00F6, NFD = o U+0308
Whitespace == {" ", "TAB"}               \* matched by \s and removed by trim()
Hyphen == "-"
Apostrophe == "'"
Cyrillic == "ya"                         \* U+044F: a lowercase letter outside a-z
                                         \* that has no decomposition

Char == LowerAZ \cup UpperAZ \cup Digits \cup {CombiningMark}
          \cup PrecomposedUpper \cup PrecomposedLower \cup Whitespace
          \cup {Hyphen, Apostrophe, Cyrillic}

\* String.prototype.normalize('NFD') on one code unit
NFDChar(c) ==
    CASE c = "O~" -> <<"O", CombiningMark>>
      [] c = "o~" -> <<"o", CombiningMark>>
      [] OTHER -> <<c>>

RECURSIVE NFD(_)
NFD(s) == IF s = <<>> THEN <<>> ELSE NFDChar(Head(s)) \o NFD(Tail(s))

\* String.prototype.toLowerCase on one code unit
LowerChar(c) ==
    CASE c = "E" -> "e"
      [] c = "O" -> "o"
      [] c = "O~" -> "o~"
      [] OTHER -> c

RECURSIVE toLowerCase(_)
toLowerCase(s) ==
    IF s = <<>> THEN <<>> ELSE <<LowerChar(Head(s))>> \o toLowerCase(Tail(s))

\* s.replace(/[...]/g, '') : delete every code unit of the class Drop
RECURSIVE RemoveAll(_, _)
RemoveAll(s, Drop) ==
    IF s = <<>> THEN <<>>
    ELSE IF Head(s) \in Drop THEN RemoveAll(Tail(s), Drop)
    ELSE <<Head(s)>> \o RemoveAll(Tail(s), Drop)

IsCombining == {CombiningMark}                            \* [\u0300-\u036f]
IsSpecial ==                                              \* [^a-z0-9\s-]
    Char \ (LowerAZ \cup Digits \cup Whitespace \cup {Hyphen})

RECURSIVE trimStart(_)
trimStart(s) ==
    IF s = <<>> THEN <<>>
    ELSE IF Head(s) \in Whitespace THEN trimStart(Tail(s))
    ELSE s

RECURSIVE trimEnd(_)
trimEnd(s) ==
    IF s = <<>> THEN <<>>
    ELSE IF s[Len(s)] \in Whitespace THEN trimEnd(SubSeq(s, 1, Len(s) - 1))
    ELSE s

\* String.prototype.trim
trim(s) == trimEnd(trimStart(s))

\* s.replace(/\s+/g, ' ')
RECURSIVE collapseSpaces(_)
collapseSpaces(s) ==
    IF s = <<>> THEN <<>>
    ELSE IF Head(s) \in Whitespace
         THEN <<" ">> \o collapseSpaces(trimStart(Tail(s)))
    ELSE <<Head(s)>> \o collapseSpaces(Tail(s))

\* The chain with trim() moved to the front of it.
normalizePlayerName_trimFirst(name) ==
    collapseSpaces(
      RemoveAll(toLowerCase(RemoveAll(NFD(trim(name)), IsCombining)), IsSpecial))

normalizePlayerName(name) ==
    trim(
      collapseSpaces(
        RemoveAll(toLowerCase(RemoveAll(NFD(name), IsCombining)), IsSpecial)))

----------------------------------------------------------------------------
(* Answer matching *)

\* String.prototype.split(/\s+/) of a trimmed, non-empty string, last element
RECURSIVE lastPart(_)
lastPart(s) ==
    IF \A i \in 1..Len(s) : s[i] \notin Whitespace THEN s
    ELSE lastPart(Tail(s))

extractLastName(fullName) ==
    LET trimmed == trim(fullName)
    IN  IF trimmed = <<>> THEN <<>> ELSE lastPart(trimmed)

\* The length test with >= in place of >.
isValidLastNameMatch_atLeast3(lastName) == Len(trim(lastName)) >= 3

isValidLastNameMatch(lastName) == Len(trim(lastName)) > 3

\* Player.full_name is string | null
Null == [isNull |-> TRUE, str |-> <<>>]
Str(s) == [isNull |-> FALSE, str |-> s]
\* JavaScript truthiness of a string | null value
Truthy(v) == ~v.isNull /\ v.str # <<>>

\* JSON values, as JSON.parse returns them
JString(s) == [type |-> "string", str |-> s, items |-> <<>>]
JNumber == [type |-> "number", str |-> <<>>, items |-> <<>>]
JNull == [type |-> "null", str |-> <<>>, items |-> <<>>]
JObject == [type |-> "object", str |-> <<>>, items |-> <<>>]
JArray(items) == [type |-> "array", str |-> <<>>, items |-> items]

\* Player.aliases is a text column or NULL.  The text is kept as what
\* JSON.parse makes of it: a value, or a SyntaxError.
NoAliases == [text |-> "NULL", value |-> JNull]
EmptyText == [text |-> "empty", value |-> JNull]
BadJson == [text |-> "invalid", value |-> JNull]
JsonText(v) == [text |-> "json", value |-> v]

AliasesTruthy(a) == a.text \notin {"NULL", "empty"}

\* What `for (const alias of aliases)` visits.  A string is iterated code
\* point by code point, an array element by element; any other value is not
\* iterable and the loop header throws a TypeError.
RECURSIVE charsOf(_)
charsOf(s) ==
    IF s = <<>> THEN <<>> ELSE <<JString(<<Head(s)>>)>> \o charsOf(Tail(s))

Iterable(v) == v.type \in {"array", "string"}
Iterate(v) == IF v.type = "array" THEN v.items ELSE charsOf(v.str)

NotFound == [found |-> FALSE, alias |-> <<>>]
Found(alias) == [found |-> TRUE, alias |-> alias]

\* The loop comparing the guess with the alias as stored.
RECURSIVE aliasLoop_rawCompare(_, _)
aliasLoop_rawCompare(normalizedGuess, elems) ==
    IF elems = <<>> THEN NotFound
    ELSE IF Head(elems).type # "string" THEN NotFound
    ELSE IF normalizedGuess = Head(elems).str THEN Found(Head(elems).str)
    ELSE aliasLoop_rawCompare(normalizedGuess, Tail(elems))

\* The body of the try block once JSON.parse has returned.  An element that
\* is not a string makes normalizePlayerName throw a TypeError
\* (alias.normalize is not a function), which the catch swallows.
RECURSIVE aliasLoop(_, _)
aliasLoop(normalizedGuess, elems) ==
    IF elems = <<>> THEN NotFound
    ELSE IF Head(elems).type # "string" THEN NotFound
    ELSE IF normalizedGuess = normalizePlayerName(Head(elems).str)
         THEN Found(Head(elems).str)
    ELSE aliasLoop(normalizedGuess, Tail(elems))

\* try { JSON.parse; for ... } catch {}
checkAliases(normalizedGuess, aliases) ==
    IF ~AliasesTruthy(aliases) THEN NotFound
    ELSE IF aliases.text = "invalid" THEN NotFound          \* SyntaxError
    ELSE IF ~Iterable(aliases.value) THEN NotFound          \* TypeError
    ELSE aliasLoop(normalizedGuess, Iterate(aliases.value))

Incorrect == [isCorrect |-> FALSE]
Correct(type, answer) ==
    [isCorrect |-> TRUE, matchType |-> type, acceptedAnswer |-> answer]

\* Step 4 returning the match without the accepted answer.
lastNameStep_noAnswer(normalizedGuess, p) ==
    LET lastName == extractLastName(p.name)
        normalizedLastName == normalizePlayerName(lastName)
    IN  IF isValidLastNameMatch(lastName) /\ normalizedGuess = normalizedLastName
        THEN [isCorrect |-> TRUE, matchType |-> "last_name"]
        ELSE Incorrect

\* 4. last name, then "no match found"
lastNameStep(normalizedGuess, p) ==
    LET lastName == extractLastName(p.name)
        normalizedLastName == normalizePlayerName(lastName)
    IN  IF isValidLastNameMatch(lastName) /\ normalizedGuess = normalizedLastName
        THEN Correct("last_name", lastName)
        ELSE Incorrect

\* Steps 3 and 4 in the other order.
aliasStep_lastNameFirst(normalizedGuess, p) ==
    LET last == lastNameStep(normalizedGuess, p)
        hit == checkAliases(normalizedGuess, p.aliases)
    IN  IF last.isCorrect THEN last
        ELSE IF hit.found THEN Correct("alias", hit.alias)
        ELSE Incorrect

\* 3. aliases, falling through to step 4
aliasStep(normalizedGuess, p) ==
    LET hit == checkAliases(normalizedGuess, p.aliases)
    IN  IF hit.found THEN Correct("alias", hit.alias)
        ELSE lastNameStep(normalizedGuess, p)

\* 2. full name, falling through to step 3
fullNameStep(normalizedGuess, p) ==
    IF Truthy(p.full_name)
       /\ normalizedGuess = normalizePlayerName(p.full_name.str)
    THEN Correct("full_name", p.full_name.str)
    ELSE aliasStep(normalizedGuess, p)

\* Step 1 comparing with the name as stored.
exactStep_rawName(normalizedGuess, p) ==
    IF normalizedGuess = p.name
    THEN Correct("exact", p.name)
    ELSE fullNameStep(normalizedGuess, p)

\* 1. exact name, falling through to step 2
exactStep(normalizedGuess, p) ==
    IF normalizedGuess = normalizePlayerName(p.name)
    THEN Correct("exact", p.name)
    ELSE fullNameStep(normalizedGuess, p)

\* The function without its early return for an empty guess.
validatePlayerGuess_noEmptyCheck(g, p) ==
    exactStep(normalizePlayerName(g), p)

validatePlayerGuess(g, p) ==
    LET normalizedGuess == normalizePlayerName(g)
    IN  IF normalizedGuess = <<>> THEN Incorrect
        ELSE exactStep(normalizedGuess, p)

----------------------------------------------------------------------------
(* Scoring *)

\* GAME_CONSTANTS.CAREER_PATH_POINTS
FIRST_20_PERCENT == 3
FIRST_50_PERCENT == 2
AFTER_50_PERCENT == 1
MINIMUM_SCORE == 1

\* The tiers with the boundaries excluded.
basePointsOf_strict(total, revealed) ==
    IF total = 1 \/ 5 * revealed < total THEN FIRST_20_PERCENT
    ELSE IF 2 * revealed < total THEN FIRST_50_PERCENT
    ELSE AFTER_50_PERCENT

\* percentageRevealed = clubsRevealed / totalClubs is an IEEE double.  For
\* counts of this size the double compares with the literals 0.2 and 0.5 as
\* the exact ratio compares with 1/5 and 1/2, so the tests are made on
\* integers: r/t <= 0.2 iff 5r <= t, and r/t <= 0.5 iff 2r <= t.
basePointsOf(total, revealed) ==
    IF total = 1 \/ 5 * revealed <= total THEN FIRST_20_PERCENT
    ELSE IF 2 * revealed <= total THEN FIRST_50_PERCENT
    ELSE AFTER_50_PERCENT

\* Math.max
Max(a, b) == IF a >= b THEN a ELSE b

\* The raw score returned as it is.
finalScoreOf_noFloor(rawScore) == rawScore

finalScoreOf(rawScore) == Max(rawScore, MINIMUM_SCORE)

\* The breakdown template string, kept as its variable parts.
breakdownOf(basePoints, wrong, rawScore, finalScore) ==
    [basePoints |-> basePoints,
     penaltyCount |-> wrong,
     penaltyWord |-> IF wrong = 0 THEN "penalties"
                     ELSE IF wrong = 1 THEN "wrong guess" ELSE "wrong guesses",
     finalScore |-> finalScore,
     unit |-> IF finalScore = 1 THEN "point" ELSE "points",
     minimumEnforced |-> wrong # 0 /\ rawScore < MINIMUM_SCORE]

\* A reveal count above the total scored as if nothing was revealed.
calculateCareerPathScore_outOfRangeFirst(total, revealed, wrong) ==
    LET basePoints == IF revealed > total THEN FIRST_20_PERCENT
                      ELSE basePointsOf(total, revealed)
        penalties == IF wrong = 0 THEN 0 ELSE -wrong
        rawScore == basePoints + penalties
        finalScore == finalScoreOf(rawScore)
    IN  [basePoints |-> basePoints,
         penalties |-> penalties,
         finalScore |-> finalScore,
         breakdown |-> breakdownOf(basePoints, wrong, rawScore, finalScore)]

\* calculateCareerPathScore of the scoring utilities
calculateCareerPathScore(total, revealed, wrong) ==
    LET basePoints == basePointsOf(total, revealed)
        penalties == IF wrong = 0 THEN 0 ELSE -wrong
        rawScore == basePoints + penalties
        finalScore == finalScoreOf(rawScore)
    IN  [basePoints |-> basePoints,
         penalties |-> penalties,
         finalScore |-> finalScore,
         breakdown |-> breakdownOf(basePoints, wrong, rawScore, finalScore)]

\* GAME_CONSTANTS.TRANSFER_POINTS
NO_HINTS == 3
POSITION_REVEALED == 2
NATIONALITY_REVEALED == 1

\* The tiers read off the constant names: nationality shown pays the
\* NATIONALITY_REVEALED points whether or not the position is shown.
calculateTransferScore_byHint(hints) ==
    LET finalScore ==
          IF ~hints.position /\ ~hints.nationality THEN NO_HINTS
          ELSE IF hints.nationality THEN NATIONALITY_REVEALED
          ELSE POSITION_REVEALED
    IN  [basePoints |-> finalScore, penalties |-> 0, finalScore |-> finalScore,
         breakdown |-> "points"]

calculateTransferScore(hints) ==
    LET finalScore ==
          IF ~hints.position /\ ~hints.nationality THEN NO_HINTS
          ELSE IF hints.position /\ hints.nationality THEN NATIONALITY_REVEALED
          ELSE POSITION_REVEALED
        breakdown ==
          IF ~hints.position /\ ~hints.nationality THEN "3 points (no hints)"
          ELSE IF hints.position /\ hints.nationality
               THEN "1 point (position + nationality revealed)"
          ELSE IF hints.position THEN "2 points (position revealed)"
          ELSE "2 points (nationality revealed)"
    IN  [basePoints |-> finalScore, penalties |-> 0, finalScore |-> finalScore,
         breakdown |-> breakdown]

----------------------------------------------------------------------------
(* Normalizer run: normalize a string, then normalize the output again *)

RECURSIVE StringsUpTo(_)
StringsUpTo(n) ==
    IF n = 0 THEN {<<>>}
    ELSE LET prev == StringsUpTo(n - 1)
         IN  prev \cup {Append(s, c) : s \in prev, c \in Char}

NormIdle == nIn = <<>> /\ nOut = <<>> /\ nOut2 = <<>> /\ nPc = "idle"

NormInit ==
    /\ nIn \in StringsUpTo(MaxLen)
    /\ nOut = <<>> /\ nOut2 = <<>>
    /\ nPc = "input"

Normalize ==
    /\ nPc = "input"
    /\ nOut' = normalizePlayerName(nIn)
    /\ nPc' = "once"
    /\ UNCHANGED <<nIn, nOut2, notNorm>>

NormalizeAgain ==
    /\ nPc = "once"
    /\ nOut2' = normalizePlayerName(nOut)
    /\ nPc' = "twice"
    /\ UNCHANGED <<nIn, nOut, notNorm>>

----------------------------------------------------------------------------
(* One validatePlayerGuess call: a player row is loaded, a guess is checked *)

SP == <<" ">>
Eto == <<"E", "t", "o">>
Ozil == <<"O~", "z", "i", "l">>
ozil == <<"o", "z", "i", "l">>
Ya == <<"ya">>
LetterO == <<"o">>

NameParts == {SP, Eto, Ozil, Ya}
GuessParts == {SP, Eto, Ozil, Ya, LetterO}

\* every concatenation of at most n of the given parts
RECURSIVE Concats(_, _)
Concats(n, parts) ==
    IF n = 0 THEN {<<>>}
    ELSE LET prev == Concats(n - 1, parts)
         IN  prev \cup {s \o q : s \in prev, q \in parts}

RECURSIVE SeqsUpTo(_, _)
SeqsUpTo(n, elems) ==
    IF n = 0 THEN {<<>>}
    ELSE LET prev == SeqsUpTo(n - 1, elems)
         IN  prev \cup {Append(s, e) : s \in prev, e \in elems}

\* a player name has at least one visible character
Names == {s \in Concats(MaxNameParts, NameParts) : trim(s) # <<>>}
Guesses == Concats(MaxGuessParts, GuessParts)
FullNames == {Null, Str(Ozil)}
AliasElems == {JString(Eto), JString(Ozil), JString(ozil), JNumber}
AliasesValues ==
    {NoAliases, EmptyText, BadJson}
      \cup {JsonText(v) : v \in {JNumber, JNull, JObject, JString(Ozil)}}
      \cup {JsonText(JArray(a)) : a \in SeqsUpTo(MaxAliases, AliasElems)}

Players ==
    [name : Names, full_name : FullNames, aliases : AliasesValues]

MatchInit ==
    /\ player \in Players
    /\ guess = <<>>
    /\ result = Incorrect
    /\ mPc = "loaded"

Validate ==
    /\ mPc = "loaded"
    /\ \E g \in Guesses :
         /\ guess' = g
         /\ result' = validatePlayerGuess(g, player)
    /\ mPc' = "done"
    /\ UNCHANGED <<player, notMatch>>

----------------------------------------------------------------------------
(* The database connection singleton *)

Callers == 1..NumCallers
NoDatabase == 0                  \* databaseInstance = null
NoPromise == 0                   \* initializationPromise = null

\* A promise returned by initializeDatabaseConnection, with the position of
\* the async function that settles it.  promises[i] is the i-th one created.
PendingOpen == [state |-> "opening", db |-> NoDatabase]
PendingSchema(db) == [state |-> "schema", db |-> db]
Fulfilled(db) == [state |-> "fulfilled", db |-> db]
Rejected == [state |-> "rejected", db |-> NoDatabase]
Settled(i) == promises[i].state \in {"fulfilled", "rejected"}

ConnInit ==
    /\ databaseInstance = NoDatabase
    /\ isInitialized = FALSE
    /\ initializationPromise = NoPromise
    /\ promises = <<>>
    /\ nextHandle = 1
    /\ callPc = [c \in Callers |-> "idle"]
    /\ callPromise = [c \in Callers |-> NoPromise]
    /\ callResult = [c \in Callers |-> NoDatabase]
    /\ calls = 0

ConnIdle ==
    /\ databaseInstance = NoDatabase
    /\ isInitialized = FALSE
    /\ initializationPromise = NoPromise
    /\ promises = <<>>
    /\ nextHandle = 0
    /\ callPc = <<>> /\ callPromise = <<>> /\ callResult = <<>>
    /\ calls = 0

\* getDatabase without the test of initializationPromise.
GetDatabase_noPromiseCheck(c) ==
    /\ callPc[c] \in {"idle", "returned", "thrown"}
    /\ calls < MaxCalls
    /\ calls' = calls + 1
    /\ IF databaseInstance # NoDatabase /\ isInitialized
       THEN /\ callPc' = [callPc EXCEPT ![c] = "returned"]
            /\ callResult' = [callResult EXCEPT ![c] = databaseInstance]
            /\ UNCHANGED <<initializationPromise, promises, callPromise>>
       ELSE /\ promises' = Append(promises, PendingOpen)
            /\ initializationPromise' = Len(promises) + 1
            /\ callPc' = [callPc EXCEPT ![c] = "initializing"]
            /\ callPromise' = [callPromise EXCEPT ![c] = Len(promises) + 1]
            /\ callResult' = [callResult EXCEPT ![c] = NoDatabase]
    /\ UNCHANGED <<databaseInstance, isInitialized, nextHandle, notConn>>

\* getDatabase up to its first await: the fast path, joining the
\* initialization in progress, or starting one.  initializeDatabaseConnection
\* runs synchronously up to `await SQLite.openDatabaseAsync`.
GetDatabase(c) ==
    /\ callPc[c] \in {"idle", "returned", "thrown"}
    /\ calls < MaxCalls
    /\ calls' = calls + 1
    /\ IF databaseInstance # NoDatabase /\ isInitialized
       THEN /\ callPc' = [callPc EXCEPT ![c] = "returned"]
            /\ callResult' = [callResult EXCEPT ![c] = databaseInstance]
            /\ UNCHANGED <<initializationPromise, promises, callPromise>>
       ELSE IF initializationPromise # NoPromise
       THEN /\ callPc' = [callPc EXCEPT ![c] = "waiting"]
            /\ callPromise' = [callPromise EXCEPT ![c] = initializationPromise]
            /\ callResult' = [callResult EXCEPT ![c] = NoDatabase]
            /\ UNCHANGED <<initializationPromise, promises>>
       ELSE /\ promises' = Append(promises, PendingOpen)
            /\ initializationPromise' = Len(promises) + 1
            /\ callPc' = [callPc EXCEPT ![c] = "initializing"]
            /\ callPromise' = [callPromise EXCEPT ![c] = Len(promises) + 1]
            /\ callResult' = [callResult EXCEPT ![c] = NoDatabase]
    /\ UNCHANGED <<databaseInstance, isInitialized, nextHandle, notConn>>

\* The catch block of initializeDatabaseConnection
InitFailed(i) ==
    /\ databaseInstance' = NoDatabase
    /\ isInitialized' = FALSE
    /\ promises' = [promises EXCEPT ![i] = Rejected]

\* initializeDatabaseConnection from openDatabaseAsync to
\* `databaseInstance = db`: open, version check, and on a version mismatch
\* close, delete and reopen.  Any of the awaited calls may throw.
OpenDatabase(i) ==
    /\ i \in 1..Len(promises)
    /\ promises[i].state = "opening"
    /\ \/ /\ databaseInstance' = nextHandle
          /\ nextHandle' = nextHandle + 1
          /\ promises' = [promises EXCEPT ![i] = PendingSchema(nextHandle)]
          /\ UNCHANGED isInitialized
       \/ /\ InitFailed(i)
          /\ UNCHANGED nextHandle
    /\ UNCHANGED <<initializationPromise, callPc, callPromise, callResult,
                   calls, notConn>>

\* initializeDatabaseConnection from initializeDatabase(db) to `return db`
InitializeSchema(i) ==
    /\ i \in 1..Len(promises)
    /\ promises[i].state = "schema"
    /\ \/ /\ isInitialized' = TRUE
          /\ promises' = [promises EXCEPT ![i] = Fulfilled(promises[i].db)]
          /\ UNCHANGED databaseInstance
       \/ InitFailed(i)
    /\ UNCHANGED <<initializationPromise, nextHandle, callPc, callPromise,
                   callResult, calls, notConn>>

\* `await initializationPromise` returns or throws in the call that started
\* the initialization; the finally block clears the promise.
InitializerResumes(c) ==
    /\ callPc[c] = "initializing"
    /\ Settled(callPromise[c])
    /\ initializationPromise' = NoPromise
    /\ callPc' = [callPc EXCEPT ![c] =
         IF promises[callPromise[c]].state = "fulfilled"
         THEN "returned" ELSE "thrown"]
    /\ callResult' = [callResult EXCEPT ![c] = promises[callPromise[c]].db]
    /\ UNCHANGED <<databaseInstance, isInitialized, promises, nextHandle,
                   callPromise, calls, notConn>>

\* `return initializationPromise` settles as that promise does.
WaiterResumes(c) ==
    /\ callPc[c] = "waiting"
    /\ Settled(callPromise[c])
    /\ callPc' = [callPc EXCEPT ![c] =
         IF promises[callPromise[c]].state = "fulfilled"
         THEN "returned" ELSE "thrown"]
    /\ callResult' = [callResult EXCEPT ![c] = promises[callPromise[c]].db]
    /\ UNCHANGED <<databaseInstance, isInitialized, initializationPromise,
                   promises, nextHandle, callPromise, calls, notConn>>

----------------------------------------------------------------------------
(* The local database: questions, progress and statistics *)

\* The questions table: the seeded starter pack and one pack that comes
\* from the store, each row with its pack_id and game_mode.
questions ==
    { [id |-> "q1", pack_id |-> "starter-pack", game_mode |-> "career_path"],
      [id |-> "q2", pack_id |-> "starter-pack", game_mode |-> "transfer"],
      [id |-> "q3", pack_id |-> "premium-pack", game_mode |-> "career_path"] }
QuestionIds == {q.id : q \in questions}
UnknownQuestion == "q?"          \* an id that is not in the questions table
PackIds == {q.pack_id : q \in questions}
GameModes == {q.game_mode : q \in questions}
NoPack == "undefined"            \* packId omitted

\* A user_progress row; its id is its position in the table.
ProgressRow(questionId, correct, points) ==
    [question_id |-> questionId,
     answered_correctly |-> IF correct THEN 1 ELSE 0,
     score_earned |-> points]

\* A ratio of two counts, as JavaScript's `/` gives it for small integers:
\* two ratios are the same double exactly when they are the same fraction.
Ratio(n, d) == [num |-> n, den |-> d]
ZeroRatio == Ratio(0, 1)
SameRatio(a, b) == a.num * b.den = b.num * a.den

\* initializeUserStats: the singleton row
NoStats == [missing |-> TRUE]
InitialStats ==
    [total_questions_answered |-> 0, total_score |-> 0,
     current_streak |-> 0, best_streak |-> 0, accuracy_rate |-> ZeroRatio]

\* SELECT COUNT(*) ... WHERE answered_correctly = 1
CountCorrect(rows) ==
    Cardinality({i \in 1..Len(rows) : rows[i].answered_correctly = 1})

\* calculateStreak of the scoring utilities
calculateStreak(currentStreak, wasCorrect) ==
    IF wasCorrect THEN currentStreak + 1 ELSE 0

\* Step 3 without the look at the previous answer.
newStreakOf_restart(stats, rows, correct) == IF correct THEN 1 ELSE 0

\* Step 3 of recordQuestionAnswer: the new streak, from the stats row and
\* the progress table that already holds the new row.  max_id is the id of
\* the new row, the previous answer is the row before it.
newStreakOf(stats, rows, correct) ==
    LET max_id == Len(rows)
        previousCorrect ==
            max_id - 1 >= 1 /\ rows[max_id - 1].answered_correctly = 1
    IN  IF ~correct THEN 0
        ELSE IF previousCorrect THEN stats.current_streak + 1
        ELSE 1

\* The best streak overwritten by the new streak.
newBestStreakOf_current(stats, correct, newStreak) == newStreak

\* Step 3, `if (newStreak > stats.best_streak)`, inside `if (correct)`
newBestStreakOf(stats, correct, newStreak) ==
    IF correct /\ newStreak > stats.best_streak THEN newStreak
    ELSE stats.best_streak

\* Step 4 dividing by the number of correct rows.
newAccuracyOf_correctOnly(stats, totalCorrect) ==
    IF totalCorrect > 0 THEN Ratio(totalCorrect, totalCorrect) ELSE ZeroRatio

\* Step 4 of recordQuestionAnswer
newAccuracyOf(stats, totalCorrect) ==
    LET totalAnswered == stats.total_questions_answered + 1
    IN  IF totalAnswered > 0 THEN Ratio(totalCorrect, totalAnswered)
        ELSE ZeroRatio

\* Step 5 storing the score of this answer as the total.
updatedStats_lastScore(stats, points, streak, totalCorrect) ==
    [total_questions_answered |-> stats.total_questions_answered + 1,
     total_score |-> points,
     current_streak |-> streak.streak,
     best_streak |-> streak.best,
     accuracy_rate |-> newAccuracyOf(stats, totalCorrect)]

\* Step 5 of recordQuestionAnswer: the values the UPDATE writes
updatedStats(stats, points, streak, totalCorrect) ==
    [total_questions_answered |-> stats.total_questions_answered + 1,
     total_score |-> stats.total_score + points,
     current_streak |-> streak.streak,
     best_streak |-> streak.best,
     accuracy_rate |-> newAccuracyOf(stats, totalCorrect)]

\* calculateAccuracyRate of the progress queries
calculateAccuracyRate(rows) ==
    LET total == Len(rows)
        correct == CountCorrect(rows)
    IN  IF total > 0 THEN Ratio(correct, total) ELSE ZeroRatio

NoQuestion == [none |-> TRUE]    \* getFirstAsync found no row: null

Recorders == {"call"}            \* recordQuestionAnswer calls, one at a time
NoTxn == [active |-> FALSE]
NoArgs == [none |-> TRUE]
NoLocal == [none |-> TRUE]
\* the (correct, score) pairs the calls are made with
AnswerInputs == {<<TRUE, 1>>, <<TRUE, 3>>, <<FALSE, 0>>}

ProgressInit ==
    /\ user_progress = <<>>
    /\ user_stats = InitialStats
    /\ user_purchased_packs = <<"starter-pack">>
    /\ txnSnapshot = NoTxn
    /\ recPc = [k \in Recorders |-> "idle"]
    /\ recArgs = [k \in Recorders |-> NoArgs]
    /\ recLocal = [k \in Recorders |-> NoLocal]
    /\ answers = <<>>
    /\ uqArgs = NoArgs
    /\ uqResult = NoQuestion

ProgressIdle ==
    /\ user_progress = <<>>
    /\ user_stats = NoStats
    /\ user_purchased_packs = <<>>
    /\ txnSnapshot = NoTxn
    /\ recPc = <<>> /\ recArgs = <<>> /\ recLocal = <<>>
    /\ answers = <<>>
    /\ uqArgs = NoArgs
    /\ uqResult = NoQuestion

InProgress(k) == recPc[k] \in {"inserted", "stats", "streak", "accuracy"}

\* withTransactionAsync's catch without its ROLLBACK.
Rollback_keep(k) ==
    /\ txnSnapshot' = NoTxn
    /\ recPc' = [recPc EXCEPT ![k] = "rejected"]
    /\ recArgs' = [recArgs EXCEPT ![k] = NoArgs]
    /\ recLocal' = [recLocal EXCEPT ![k] = NoLocal]
    /\ UNCHANGED <<user_progress, user_stats>>

\* withTransactionAsync's catch: ROLLBACK and rethrow; recordQuestionAnswer
\* rejects with the wrapped error.
Rollback(k) ==
    /\ user_progress' = txnSnapshot.user_progress
    /\ user_stats' = txnSnapshot.user_stats
    /\ txnSnapshot' = NoTxn
    /\ recPc' = [recPc EXCEPT ![k] = "rejected"]
    /\ recArgs' = [recArgs EXCEPT ![k] = NoArgs]
    /\ recLocal' = [recLocal EXCEPT ![k] = NoLocal]

\* recordQuestionAnswer up to the end of step 1: BEGIN TRANSACTION and the
\* INSERT, which the foreign key on question_id refuses for an unknown id.
RecordBegin(k, questionId, correct, points) ==
    /\ recPc[k] \in {"idle", "resolved", "rejected"}
    /\ txnSnapshot = NoTxn
    /\ Len(user_progress) < MaxAnswers
    /\ IF questionId \in QuestionIds
       THEN /\ txnSnapshot' = [active |-> TRUE, user_progress |-> user_progress,
                               user_stats |-> user_stats]
            /\ user_progress' =
                 Append(user_progress, ProgressRow(questionId, correct, points))
            /\ recPc' = [recPc EXCEPT ![k] = "inserted"]
            /\ recArgs' = [recArgs EXCEPT ![k] =
                 [questionId |-> questionId, correct |-> correct,
                  score |-> points]]
            /\ UNCHANGED <<user_stats, recLocal>>
       ELSE /\ recPc' = [recPc EXCEPT ![k] = "rejected"]
            /\ recArgs' = [recArgs EXCEPT ![k] = NoArgs]
            /\ UNCHANGED <<user_progress, user_stats, txnSnapshot, recLocal>>
    /\ UNCHANGED <<user_purchased_packs, answers, uqArgs, uqResult,
                   notProgress>>

\* Step 2: read the stats row, or throw when there is none.
RecordReadStats(k) ==
    /\ recPc[k] = "inserted"
    /\ IF user_stats = NoStats
       THEN Rollback(k)
       ELSE /\ recLocal' = [recLocal EXCEPT ![k] = [stats |-> user_stats]]
            /\ recPc' = [recPc EXCEPT ![k] = "stats"]
            /\ UNCHANGED <<user_progress, user_stats, txnSnapshot, recArgs>>
    /\ UNCHANGED <<user_purchased_packs, answers, uqArgs, uqResult,
                   notProgress>>

\* Step 3: the streak
RecordStreak(k) ==
    /\ recPc[k] = "stats"
    /\ recLocal' = [recLocal EXCEPT ![k] =
         [stats |-> recLocal[k].stats,
          streak |->
            LET newStreak == newStreakOf(recLocal[k].stats, user_progress,
                                         recArgs[k].correct)
            IN  [streak |-> newStreak,
                 best |-> newBestStreakOf(recLocal[k].stats,
                                          recArgs[k].correct, newStreak)]]]
    /\ recPc' = [recPc EXCEPT ![k] = "streak"]
    /\ UNCHANGED <<user_progress, user_stats, user_purchased_packs,
                   txnSnapshot, recArgs, answers, uqArgs, uqResult,
                   notProgress>>

\* Step 4: count the correct rows
RecordAccuracy(k) ==
    /\ recPc[k] = "streak"
    /\ recLocal' = [recLocal EXCEPT ![k] =
         [stats |-> recLocal[k].stats, streak |-> recLocal[k].streak,
          totalCorrect |-> CountCorrect(user_progress)]]
    /\ recPc' = [recPc EXCEPT ![k] = "accuracy"]
    /\ UNCHANGED <<user_progress, user_stats, user_purchased_packs,
                   txnSnapshot, recArgs, answers, uqArgs, uqResult,
                   notProgress>>

\* Step 5 and COMMIT: the UPDATE of the row with id 1; the call resolves.
RecordUpdate(k) ==
    /\ recPc[k] = "accuracy"
    /\ user_stats' =
         IF user_stats = NoStats THEN NoStats
         ELSE updatedStats(recLocal[k].stats, recArgs[k].score,
                           recLocal[k].streak, recLocal[k].totalCorrect)
    /\ txnSnapshot' = NoTxn
    /\ recPc' = [recPc EXCEPT ![k] = "resolved"]
    /\ answers' = Append(answers, recArgs[k])
    /\ recArgs' = [recArgs EXCEPT ![k] = NoArgs]
    /\ recLocal' = [recLocal EXCEPT ![k] = NoLocal]
    /\ UNCHANGED <<user_progress, user_purchased_packs, uqArgs, uqResult,
                   notProgress>>

\* A statement of steps 2 to 5 throws (the database reports an error).
RecordFails(k) ==
    /\ InProgress(k)
    /\ Rollback(k)
    /\ UNCHANGED <<user_purchased_packs, answers, uqArgs, uqResult,
                   notProgress>>

\* SELECT question_id FROM user_progress WHERE answered_correctly = 1
CorrectlyAnswered(rows) ==
    {rows[i].question_id : i \in {j \in 1..Len(rows) :
                                    rows[j].answered_correctly = 1}}

\* The query that leaves out every answered question, right or wrong.
unansweredRows_anyAnswer(gameMode, packId, rows, purchased) ==
    LET answered == {rows[i].question_id : i \in 1..Len(rows)}
    IN  IF packId # NoPack
        THEN {q \in questions : /\ q.game_mode = gameMode
                                /\ q.pack_id = packId
                                /\ q.id \notin answered}
        ELSE {q \in questions :
                /\ \E i \in 1..Len(purchased) : purchased[i] = q.pack_id
                /\ q.game_mode = gameMode
                /\ q.id \notin answered}

\* The rows the query of getUnansweredQuestion selects, before
\* ORDER BY RANDOM() LIMIT 1
unansweredRows(gameMode, packId, rows, purchased) ==
    IF packId # NoPack
    THEN {q \in questions : /\ q.game_mode = gameMode
                            /\ q.pack_id = packId
                            /\ q.id \notin CorrectlyAnswered(rows)}
    ELSE {q \in questions :
            /\ \E i \in 1..Len(purchased) : purchased[i] = q.pack_id
            /\ q.game_mode = gameMode
            /\ q.id \notin CorrectlyAnswered(rows)}

\* getUnansweredQuestion: any one of the selected rows, or null
GetUnansweredQuestion(gameMode, packId) ==
    /\ recPc # <<>>
    /\ LET found == unansweredRows(gameMode, packId, user_progress,
                                   user_purchased_packs)
       IN  IF found = {} THEN uqResult' = NoQuestion
           ELSE uqResult' \in found
    /\ uqArgs' = [gameMode |-> gameMode, packId |-> packId]
    /\ UNCHANGED <<user_progress, user_stats, user_purchased_packs,
                   txnSnapshot, recPc, recArgs, recLocal, answers,
                   notProgress>>

----------------------------------------------------------------------------
(* The progressive career-path screen and the transfer screen *)

\* GAME_CONSTANTS.MAX_WRONG_GUESSES
MAX_WRONG_GUESSES == 5

ScreenModes == {"progressive", "transfer"}
FullMode == "full"               \* the Career Path Full screen
NoHints == [position |-> FALSE, nationality |-> FALSE]

\* The state loadQuestion sets once the question and its player are loaded.
\* careers.length is at least 1; the transfer screen has no career table.
Loaded(mode, length) ==
    /\ screenMode' = mode
    /\ screenError' = FALSE
    /\ careersLength' = length
    /\ currentClubIndex' = 0
    /\ screenHints' = NoHints
    /\ guessTyped' = FALSE
    /\ screenWrongGuesses' = 0
    /\ isComplete' = FALSE
    /\ showResult' = FALSE

RoundInit ==
    /\ screenMode \in ScreenModes
    /\ screenError = FALSE
    /\ careersLength \in
         IF screenMode = "progressive" THEN 1..MaxCareers ELSE {0}
    /\ currentClubIndex = 0
    /\ screenHints = NoHints
    /\ guessTyped = FALSE
    /\ screenWrongGuesses = 0
    /\ isComplete = FALSE
    /\ showResult = FALSE
    /\ screenFinalScore = 0
    /\ pendingRecords = <<>>
    /\ recordCalls = <<>>

RoundIdle ==
    /\ screenMode = "none"
    /\ screenError = FALSE
    /\ careersLength = 0
    /\ currentClubIndex = 0
    /\ screenHints = NoHints
    /\ guessTyped = FALSE
    /\ screenWrongGuesses = 0
    /\ isComplete = FALSE
    /\ showResult = FALSE
    /\ screenFinalScore = 0
    /\ pendingRecords = <<>>
    /\ recordCalls = <<>>

\* The game view is rendered (no error view) and the result modal, which
\* covers it, is not shown: the input, Skip, hint and Guess controls work.
Playable ==
    screenMode \in ScreenModes \cup {FullMode} /\ ~screenError /\ ~showResult

\* onChangeText={setGuess}: the user types a guess that is not blank
TypeGuess ==
    /\ Playable
    /\ screenMode = FullMode => ~isComplete      \* editable={!isComplete}
    /\ ~guessTyped
    /\ guessTyped' = TRUE
    /\ UNCHANGED <<screenMode, screenError, careersLength, currentClubIndex,
                   screenHints, screenWrongGuesses, isComplete, showResult,
                   screenFinalScore, pendingRecords, recordCalls, notRound>>

\* handleSkip without its check for the last club
HandleSkip_pastLast ==
    /\ Playable
    /\ screenMode = "progressive"
    /\ currentClubIndex' = currentClubIndex + 1
    /\ UNCHANGED <<screenMode, screenError, careersLength, screenHints,
                   guessTyped, screenWrongGuesses, isComplete, showResult,
                   screenFinalScore, pendingRecords, recordCalls, notRound>>

\* handleSkip of the progressive screen; the button is there while
\* !isLastClub
HandleSkip ==
    /\ Playable
    /\ screenMode = "progressive"
    /\ currentClubIndex < careersLength - 1
    /\ currentClubIndex' = currentClubIndex + 1
    /\ UNCHANGED <<screenMode, screenError, careersLength, screenHints,
                   guessTyped, screenWrongGuesses, isComplete, showResult,
                   screenFinalScore, pendingRecords, recordCalls, notRound>>

\* a press on a revealed hint hides it again
HandleRevealHint_toggle(hintType) ==
    /\ Playable
    /\ screenMode = "transfer"
    /\ screenHints' = [screenHints EXCEPT ![hintType] = ~screenHints[hintType]]
    /\ UNCHANGED <<screenMode, screenError, careersLength, currentClubIndex,
                   guessTyped, screenWrongGuesses, isComplete, showResult,
                   screenFinalScore, pendingRecords, recordCalls, notRound>>

\* handleRevealHint of the transfer screen
HandleRevealHint(hintType) ==
    /\ Playable
    /\ screenMode = "transfer"
    /\ ~screenHints[hintType]
    /\ screenHints' = [screenHints EXCEPT ![hintType] = TRUE]
    /\ UNCHANGED <<screenMode, screenError, careersLength, currentClubIndex,
                   guessTyped, screenWrongGuesses, isComplete, showResult,
                   screenFinalScore, pendingRecords, recordCalls, notRound>>

\* the score a correct guess records on this screen
ScoreNow ==
    IF screenMode = "progressive"
    THEN calculateCareerPathScore(careersLength, currentClubIndex + 1,
                                  screenWrongGuesses).finalScore
    ELSE calculateTransferScore(screenHints).finalScore

RecordCall(correct, points, attempts) ==
    [correct |-> correct, score |-> points, attempts |-> attempts]

\* handleGuess up to its await (or to its end when nothing is recorded).
\* isCorrect is the outcome of validatePlayerGuess on the typed guess.
HandleGuess(isCorrect) ==
    /\ Playable
    /\ screenMode \in ScreenModes
    /\ guessTyped
    /\ Len(pendingRecords) < MaxPending
    /\ Len(recordCalls) < MaxRecordCalls
    /\ screenWrongGuesses < MaxScreenWrong
    /\ IF isCorrect
       THEN LET call == RecordCall(TRUE, ScoreNow, screenWrongGuesses + 1)
            IN  /\ pendingRecords' = Append(pendingRecords, call)
                /\ recordCalls' = Append(recordCalls, call)
                /\ UNCHANGED <<screenWrongGuesses, guessTyped,
                               currentClubIndex>>
       ELSE LET newWrongGuesses == screenWrongGuesses + 1
                call == RecordCall(FALSE, 0, newWrongGuesses)
            IN  /\ screenWrongGuesses' = newWrongGuesses
                /\ guessTyped' = FALSE
                /\ IF newWrongGuesses >= MAX_WRONG_GUESSES
                   THEN /\ pendingRecords' = Append(pendingRecords, call)
                        /\ recordCalls' = Append(recordCalls, call)
                        /\ UNCHANGED currentClubIndex
                   ELSE /\ currentClubIndex' =
                             IF /\ screenMode = "progressive"
                                /\ currentClubIndex < careersLength - 1
                             THEN currentClubIndex + 1
                             ELSE currentClubIndex
                        /\ UNCHANGED <<pendingRecords, recordCalls>>
    /\ UNCHANGED <<screenMode, screenError, careersLength, screenHints,
                   isComplete, showResult, screenFinalScore, notRound>>

Without(seq, i) == SubSeq(seq, 1, i - 1) \o SubSeq(seq, i + 1, Len(seq))

\* recordQuestionAnswer resolves and handleGuess goes on after its await:
\* setFinalScore, setIsComplete(true), setShowResult(true)
RecordResolved(i) ==
    /\ i \in 1..Len(pendingRecords)
    /\ screenFinalScore' = pendingRecords[i].score
    /\ isComplete' = TRUE
    /\ showResult' = TRUE
    /\ pendingRecords' = Without(pendingRecords, i)
    /\ UNCHANGED <<screenMode, screenError, careersLength, currentClubIndex,
                   screenHints, guessTyped, screenWrongGuesses, recordCalls,
                   notRound>>

\* recordQuestionAnswer rejects: handleGuess has no catch, the rest of it
\* does not run
RecordRejected(i) ==
    /\ i \in 1..Len(pendingRecords)
    /\ pendingRecords' = Without(pendingRecords, i)
    /\ UNCHANGED <<screenMode, screenError, careersLength, currentClubIndex,
                   screenHints, guessTyped, screenWrongGuesses, isComplete,
                   showResult, screenFinalScore, recordCalls, notRound>>

\* handleNext: the modal is closed and loadQuestion runs behind the loading
\* view; it ends with the next question loaded or with the error view.
HandleNext ==
    /\ screenMode \in ScreenModes \cup {FullMode}
    /\ showResult
    /\ \/ /\ \E length \in (IF screenMode = "transfer"
                            THEN {0} ELSE 1..MaxCareers) :
                Loaded(screenMode, length)
          /\ recordCalls' = <<>>
          /\ UNCHANGED <<screenFinalScore, pendingRecords>>
       \/ /\ screenError' = TRUE
          /\ showResult' = FALSE
          /\ UNCHANGED <<screenMode, careersLength, currentClubIndex,
                         screenHints, guessTyped, screenWrongGuesses,
                         isComplete, screenFinalScore, pendingRecords, recordCalls>>
    /\ UNCHANGED notRound

\* GAME_CONSTANTS.CAREER_PATH_FULL_POINTS
CAREER_PATH_FULL_CORRECT == 1
CAREER_PATH_FULL_INCORRECT == 0

\* calculateCareerPathFullScore of the scoring utilities
calculateCareerPathFullScore(isCorrect) ==
    LET points == IF isCorrect THEN CAREER_PATH_FULL_CORRECT
                  ELSE CAREER_PATH_FULL_INCORRECT
    IN  [basePoints |-> points, penalties |-> 0, finalScore |-> points,
         breakdown |-> IF isCorrect THEN "1 point (correct)"
                       ELSE "0 points (incorrect)"]

\* getPotentialScore without the wrong guesses
getPotentialScore_noPenalty(gameMode, state) ==
    IF gameMode = "career_path_progressive"
    THEN calculateCareerPathScore(state.totalClubs, state.clubsRevealed,
                                  0).finalScore
    ELSE IF gameMode = "career_path_full"
    THEN CAREER_PATH_FULL_CORRECT
    ELSE IF gameMode = "transfer"
    THEN calculateTransferScore(state.hintsRevealed).finalScore
    ELSE 0

\* getPotentialScore(gameMode, state) of the game state utilities; the
\* screens pass every field of the state their mode reads
getPotentialScore(gameMode, state) ==
    IF gameMode = "career_path_progressive"
    THEN calculateCareerPathScore(state.totalClubs, state.clubsRevealed,
                                  state.wrongGuesses).finalScore
    ELSE IF gameMode = "career_path_full"
    THEN CAREER_PATH_FULL_CORRECT
    ELSE IF gameMode = "transfer"
    THEN calculateTransferScore(state.hintsRevealed).finalScore
    ELSE 0

\* const potentialScore = ... of the progressive and the transfer screen:
\* the score shown in the header while a question is loaded
potentialScore ==
    IF screenMode = "progressive"
    THEN getPotentialScore("career_path_progressive",
            [totalClubs |-> careersLength,
             clubsRevealed |-> currentClubIndex + 1,
             wrongGuesses |-> screenWrongGuesses])
    ELSE IF screenMode = "transfer"
    THEN getPotentialScore("transfer", [hintsRevealed |-> screenHints])
    ELSE 0

\* The Career Path Full screen once its question is loaded
FullInit ==
    /\ screenMode = FullMode
    /\ screenError = FALSE
    /\ careersLength \in 1..MaxCareers
    /\ currentClubIndex = 0
    /\ screenHints = NoHints
    /\ guessTyped = FALSE
    /\ screenWrongGuesses = 0
    /\ isComplete = FALSE
    /\ showResult = FALSE
    /\ screenFinalScore = 0
    /\ pendingRecords = <<>>
    /\ recordCalls = <<>>

\* handleGuess of the Career Path Full screen, up to its await.  The Guess
\* button is disabled by isComplete, which the handler tests again.
HandleGuessFull(isCorrect) ==
    /\ Playable
    /\ screenMode = FullMode
    /\ guessTyped
    /\ ~isComplete
    /\ Len(pendingRecords) < MaxRecordCalls
    /\ Len(recordCalls) < MaxRecordCalls
    /\ LET call == RecordCall(isCorrect,
                    calculateCareerPathFullScore(isCorrect).finalScore, 1)
       IN  /\ pendingRecords' = Append(pendingRecords, call)
           /\ recordCalls' = Append(recordCalls, call)
    /\ UNCHANGED <<screenMode, screenError, careersLength, currentClubIndex,
                   screenHints, guessTyped, screenWrongGuesses, isComplete,
                   showResult, screenFinalScore, notRound>>

----------------------------------------------------------------------------
(* Purchases: markPackAsPurchased and getPurchasedPacks *)

Purchasers == {"first", "second"}    \* call sites that may overlap
MissingPack == "missing-pack"        \* an id that is not in question_packs
\* question_packs in the order of ORDER BY qp.name
PacksByName == <<"premium-pack", "starter-pack">>

PurchaseInit ==
    /\ markPc = [k \in Purchasers |-> "idle"]
    /\ markPack = [k \in Purchasers |-> NoPack]
    /\ markCalls = 0
    /\ purchasedList = <<>>

PurchaseIdle ==
    /\ markPc = <<>>
    /\ markPack = <<>>
    /\ markCalls = 0
    /\ purchasedList = <<>>

\* markPackAsPurchased up to the result of getPackById: a pack that does
\* not exist makes the call throw.
MarkBegin(k, packId) ==
    /\ markPc[k] \in {"idle", "done", "thrown"}
    /\ markCalls < MaxMarkCalls
    /\ markCalls' = markCalls + 1
    /\ markPack' = [markPack EXCEPT ![k] = packId]
    /\ markPc' = [markPc EXCEPT ![k] =
         IF packId \in PackIds THEN "packFound" ELSE "thrown"]
    /\ UNCHANGED <<purchasedList, notPurchase>>

\* the SELECT for an existing purchase and the early return
MarkCheckExisting(k) ==
    /\ markPc[k] = "packFound"
    /\ markPc' = [markPc EXCEPT ![k] =
         IF \E i \in 1..Len(user_purchased_packs) :
                user_purchased_packs[i] = markPack[k]
         THEN "done" ELSE "inserting"]
    /\ UNCHANGED <<markPack, markCalls, purchasedList, notPurchase>>

\* the INSERT; the table has no UNIQUE constraint on pack_id
MarkInsert(k) ==
    /\ markPc[k] = "inserting"
    /\ user_purchased_packs' = Append(user_purchased_packs, markPack[k])
    /\ markPc' = [markPc EXCEPT ![k] = "done"]
    /\ UNCHANGED <<markPack, markCalls, purchasedList>>
    /\ UNCHANGED <<user_progress, user_stats, txnSnapshot, recPc, recArgs,
                   recLocal, answers, uqArgs, uqResult>>
    /\ UNCHANGED notPurchaseProgress

RECURSIVE Distinct(_)
Distinct(rows) ==
    IF rows = <<>> THEN <<>>
    ELSE LET rest == Distinct(SubSeq(rows, 1, Len(rows) - 1))
             last == rows[Len(rows)]
         IN  IF \E i \in 1..Len(rest) : rest[i] = last THEN rest
             ELSE Append(rest, last)

\* question_packs INNER JOIN user_purchased_packs ... ORDER BY qp.name:
\* one row for every purchase row of every pack
RECURSIVE JoinedPacks(_, _)
JoinedPacks(packs, purchased) ==
    IF packs = <<>> THEN <<>>
    ELSE SelectSeq(purchased, LAMBDA r : r = Head(packs))
         \o JoinedPacks(Tail(packs), purchased)

\* getPurchasedPacks: SELECT DISTINCT qp.*
getPurchasedPacks(purchased) == Distinct(JoinedPacks(PacksByName, purchased))

GetPurchasedPacks ==
    /\ markPc # <<>>
    /\ purchasedList' = getPurchasedPacks(user_purchased_packs)
    /\ UNCHANGED <<markPc, markPack, markCalls, notPurchase>>

MatchIdle ==
    /\ guess = <<>> /\ player = <<>> /\ result = <<>> /\ mPc = "idle"

ScoreIdle ==
    /\ totalClubs = 0 /\ clubsRevealed = 0 /\ wrongGuesses = 0
    /\ score = <<>> /\ sPc = "idle"
    /\ hintsRevealed = <<>> /\ transferScore = <<>> /\ tPc = "idle"

----------------------------------------------------------------------------
(* Database setup: initializeDatabase and seedDatabase *)

\* the tables createTables creates
SchemaTables ==
    {"clubs", "players", "player_careers", "transfers", "question_packs",
     "questions", "user_purchased_packs", "user_progress", "user_stats",
     "sync_metadata"}

\* the primary keys of the rows seedDatabase inserts, by table
SeedRows ==
    [clubs |-> 1..20, players |-> 1..5, player_careers |-> 1..24,
     transfers |-> 1..12, question_packs |-> {"starter-pack"},
     questions |-> {"q1", "q2"}]
NoSeedRows == [t \in DOMAIN SeedRows |-> {}]

SeedCompleted == [key |-> "seed_completed", value |-> "true"]

SetupIdle ==
    /\ dbTables = {}
    /\ seedTables = NoSeedRows
    /\ sync_metadata = {}
    /\ setupLog = <<>>

\* a database file that was just created: no table yet, nothing recorded
SetupInit ==
    /\ SetupIdle
    /\ user_progress = <<>>
    /\ user_stats = NoStats
    /\ user_purchased_packs = <<>>
    /\ txnSnapshot = NoTxn
    /\ recPc = [k \in Recorders |-> "idle"]
    /\ recArgs = [k \in Recorders |-> NoArgs]
    /\ recLocal = [k \in Recorders |-> NoLocal]
    /\ answers = <<>>
    /\ uqArgs = NoArgs
    /\ uqResult = NoQuestion

Initialized == dbTables = SchemaTables /\ user_stats # NoStats
\* SELECT value FROM sync_metadata WHERE key = 'seed_completed' gives 'true'
Seeded == SeedCompleted \in sync_metadata

SetupCall(op) ==
    [op |-> op, rerun |-> Initialized /\ Seeded,
     played |-> Len(user_progress) > 0]

\* INSERT OR IGNORE INTO user_stats (id, ...) VALUES (1, 0, ...): the row
\* with id 1 is inserted unless there is one
initializeUserStats(stats) == IF stats = NoStats THEN InitialStats ELSE stats

\* initializeDatabase: CREATE TABLE IF NOT EXISTS for every table, CREATE
\* INDEX IF NOT EXISTS, then initializeUserStats.
InitializeDatabase ==
    /\ Len(setupLog) < MaxSetupRuns
    /\ txnSnapshot = NoTxn
    /\ dbTables' = dbTables \cup SchemaTables
    /\ user_stats' = initializeUserStats(user_stats)
    /\ setupLog' = Append(setupLog, SetupCall("initializeDatabase"))
    /\ UNCHANGED <<seedTables, sync_metadata, user_progress,
                   user_purchased_packs, txnSnapshot, recPc, recArgs,
                   recLocal, answers, uqArgs, uqResult, notSetupProgress>>

\* the rows of every seeded table after the INSERT OR IGNORE statements of
\* the seed: a row whose primary key is there already is skipped
seededTables(tables) == [t \in DOMAIN SeedRows |-> tables[t] \cup SeedRows[t]]

\* does seedDatabase go on to insert the seed?  It returns early when the
\* seed_completed flag is 'true'.
seedNeeded_always(metadata) == TRUE
seedNeeded(metadata) == SeedCompleted \notin metadata

\* seedDatabase: without the tables the flag query throws; with the flag
\* set it returns; otherwise the seed is inserted in one transaction, which
\* commits or is rolled back as a whole.
SeedDatabase ==
    /\ Len(setupLog) < MaxSetupRuns
    /\ txnSnapshot = NoTxn
    /\ setupLog' = Append(setupLog, SetupCall("seedDatabase"))
    /\ IF dbTables # SchemaTables \/ ~seedNeeded(sync_metadata)
       THEN UNCHANGED <<seedTables, sync_metadata, user_purchased_packs>>
       ELSE \/ /\ seedTables' = seededTables(seedTables)
               /\ user_purchased_packs' =
                    Append(user_purchased_packs, "starter-pack")
               /\ sync_metadata' =
                    {r \in sync_metadata : r.key # SeedCompleted.key}
                        \cup {SeedCompleted}
            \/ UNCHANGED <<seedTables, sync_metadata, user_purchased_packs>>
    /\ UNCHANGED <<dbTables, user_progress, user_stats, txnSnapshot, recPc,
                   recArgs, recLocal, answers, uqArgs, uqResult, notSetupProgress>>

----------------------------------------------------------------------------
(* calculateAccuracyRate of the scoring module *)

\* Math.round(x) for x = num / den, den > 0: the nearest integer, a half
\* goes up
MathRound(num, den) == (2 * num + den) \div (2 * den)

\* Math.floor(x) in its place
scoringAccuracyRate_truncated(prevCorrect, prevTotal, nowCorrect) ==
    LET newCorrect == prevCorrect + (IF nowCorrect THEN 1 ELSE 0)
        newTotal == prevTotal + 1
    IN  IF newTotal = 0 THEN 0 ELSE (newCorrect * 100 * 100) \div newTotal

\* calculateAccuracyRate(previousCorrect, previousTotal, newlyCorrect) of
\* the scoring module.  The result is a number of two decimals; it is kept
\* here in hundredths: 4545 stands for 45.45.
scoringAccuracyRate(prevCorrect, prevTotal, nowCorrect) ==
    LET newCorrect == prevCorrect + (IF nowCorrect THEN 1 ELSE 0)
        newTotal == prevTotal + 1
    IN  IF newTotal = 0 THEN 0 ELSE MathRound(newCorrect * 100 * 100, newTotal)

AccuracyIdle ==
    /\ aCorrect = 0 /\ aTotal = 0 /\ aNewly = FALSE
    /\ aRate = <<>> /\ aPc = "idle"

AccuracyInit ==
    /\ aCorrect \in 0..MaxPrevious
    /\ aTotal \in 0..MaxPrevious
    /\ aNewly \in BOOLEAN
    /\ aRate = <<>>
    /\ aPc = "input"

CalculateAccuracyRate ==
    /\ aPc = "input"
    /\ aRate' =
         scoringAccuracyRate(aCorrect, aTotal, aNewly)
    /\ aPc' = "done"
    /\ UNCHANGED <<aCorrect, aTotal, aNewly, notAccuracy>>

----------------------------------------------------------------------------
(* Two recordQuestionAnswer calls that overlap *)

\* the two calls, for instance of a guess action that fired twice
Overlappers == {"first", "second"}

OverlapInit ==
    /\ user_progress = <<>>
    /\ user_stats = InitialStats
    /\ user_purchased_packs = <<"starter-pack">>
    /\ txnSnapshot = NoTxn
    /\ recPc = [k \in Overlappers |-> "idle"]
    /\ recArgs = [k \in Overlappers |-> NoArgs]
    /\ recLocal = [k \in Overlappers |-> NoLocal]
    /\ answers = <<>>
    /\ uqArgs = NoArgs
    /\ uqResult = NoQuestion

\* recordQuestionAnswer called while the transaction of another call is
\* open on the shared connection: withTransactionAsync runs BEGIN
\* TRANSACTION before its try block, the database refuses a transaction
\* within a transaction, and the call rejects before its INSERT.
RecordBeginBusy(k, questionId, correct, points) ==
    /\ recPc[k] = "idle"
    /\ txnSnapshot # NoTxn
    /\ recPc' = [recPc EXCEPT ![k] = "rejected"]
    /\ UNCHANGED <<user_progress, user_stats, user_purchased_packs,
                   txnSnapshot, recArgs, recLocal, answers, uqArgs, uqResult,
                   notProgress>>

----------------------------------------------------------------------------
(* Closing and resetting the database connection *)

Closers == {"close"}        \* a call site of closeDatabaseAsync
Resetters == {"reset"}      \* a call site of resetDatabaseAsync
\* the getDatabase call sites that run next to a close or a reset
CloseCallers == {1, 2}

CloseInit ==
    /\ closePc = [k \in Closers \cup Resetters |-> "idle"]
    /\ closeHandle = [k \in Closers \cup Resetters |-> NoDatabase]
    /\ closedHandles = {}
    /\ closeCalls = 0

CloseIdle ==
    /\ closePc = <<>>
    /\ closeHandle = <<>>
    /\ closedHandles = {}
    /\ closeCalls = 0

\* the connection variables that closing leaves alone
closeKeeps == <<promises, nextHandle, callPc, callPromise, callResult, calls>>
notConnClose == <<normVars, matchVars, scoreVars, progressVars, roundVars,
                  purchaseVars, setupVars, accuracyVars>>

\* closeDatabaseAsync up to `await databaseInstance.closeAsync()`, called
\* directly or as the first statement of resetDatabaseAsync; without an
\* instance there is nothing to do.
CloseBegin(k) ==
    /\ closePc[k] \in {"idle", "done", "thrown"}
    /\ closeCalls < MaxCloseCalls
    /\ closeCalls' = closeCalls + 1
    /\ IF databaseInstance # NoDatabase
       THEN /\ closePc' = [closePc EXCEPT ![k] = "closing"]
            /\ closeHandle' = [closeHandle EXCEPT ![k] = databaseInstance]
       ELSE /\ closePc' = [closePc EXCEPT ![k] =
                 IF k \in Resetters THEN "closed" ELSE "done"]
            /\ UNCHANGED closeHandle
    /\ UNCHANGED <<databaseInstance, isInitialized, initializationPromise,
                   closedHandles, closeKeeps, notConnClose>>

\* closeAsync has resolved or thrown; the finally block clears the three
\* module variables either way.
CloseFinish(k) ==
    /\ closePc[k] = "closing"
    /\ databaseInstance' = NoDatabase
    /\ isInitialized' = FALSE
    /\ initializationPromise' = NoPromise
    /\ \/ /\ closedHandles' = closedHandles \cup {closeHandle[k]}
          /\ closePc' = [closePc EXCEPT ![k] =
               IF k \in Resetters THEN "closed" ELSE "done"]
       \/ /\ closePc' = [closePc EXCEPT ![k] = "thrown"]
          /\ UNCHANGED closedHandles
    /\ UNCHANGED <<closeHandle, closeCalls, closeKeeps, notConnClose>>

\* resetDatabaseAsync after closeDatabaseAsync: deleteDatabaseAsync, which
\* may throw.  The getDatabase call that follows is a GetDatabase step of
\* a caller.
ResetDelete(k) ==
    /\ k \in Resetters
    /\ closePc[k] = "closed"
    /\ \/ closePc' = [closePc EXCEPT ![k] = "done"]
       \/ closePc' = [closePc EXCEPT ![k] = "thrown"]
    /\ UNCHANGED <<databaseInstance, isInitialized, initializationPromise,
                   closeHandle, closedHandles, closeCalls, closeKeeps,
                   notConnClose>>

\* getDatabaseStatus()
getDatabaseStatus ==
    [isConnected |-> databaseInstance # NoDatabase,
     isInitialized |-> isInitialized]

----------------------------------------------------------------------------
(* Specifications *)

InitNorm == NormInit /\ MatchIdle /\ ScoreIdle /\ ConnIdle /\ ProgressIdle /\ RoundIdle /\ PurchaseIdle /\ SetupIdle /\ AccuracyIdle /\ CloseIdle
NextNorm == Normalize \/ NormalizeAgain
SpecNorm == InitNorm /\ [][NextNorm]_vars

ScoreInit ==
    /\ totalClubs \in 1..MaxClubs
    /\ clubsRevealed \in 1..MaxClubs
    /\ wrongGuesses \in 0..MaxWrong
    /\ score = <<>>
    /\ sPc = "input"
    /\ hintsRevealed \in [position : BOOLEAN, nationality : BOOLEAN]
    /\ transferScore = <<>>
    /\ tPc = "input"

CalculateScore ==
    /\ sPc = "input"
    /\ score' = calculateCareerPathScore(totalClubs, clubsRevealed, wrongGuesses)
    /\ sPc' = "done"
    /\ UNCHANGED <<totalClubs, clubsRevealed, wrongGuesses,
                   hintsRevealed, transferScore, tPc, notScore>>

CalculateTransferScore ==
    /\ tPc = "input"
    /\ transferScore' = calculateTransferScore(hintsRevealed)
    /\ tPc' = "done"
    /\ UNCHANGED <<totalClubs, clubsRevealed, wrongGuesses, score, sPc,
                   hintsRevealed, notScore>>

InitMatch == MatchInit /\ NormIdle /\ ScoreIdle /\ ConnIdle /\ ProgressIdle /\ RoundIdle /\ PurchaseIdle /\ SetupIdle /\ AccuracyIdle /\ CloseIdle
NextMatch == Validate
SpecMatch == InitMatch /\ [][NextMatch]_vars

InitScore == ScoreInit /\ NormIdle /\ MatchIdle /\ ConnIdle /\ ProgressIdle /\ RoundIdle /\ PurchaseIdle /\ SetupIdle /\ AccuracyIdle /\ CloseIdle
NextScore == CalculateScore \/ CalculateTransferScore
SpecScore == InitScore /\ [][NextScore]_vars

InitConn == ConnInit /\ NormIdle /\ MatchIdle /\ ScoreIdle /\ ProgressIdle /\ RoundIdle /\ PurchaseIdle /\ SetupIdle /\ AccuracyIdle /\ CloseIdle
NextConn ==
    \/ \E c \in Callers : GetDatabase(c)
    \/ \E i \in 1..MaxCalls : OpenDatabase(i)
    \/ \E i \in 1..MaxCalls : InitializeSchema(i)
    \/ \E c \in Callers : InitializerResumes(c)
    \/ \E c \in Callers : WaiterResumes(c)
SpecConn == InitConn /\ [][NextConn]_vars

InitProgress ==
    ProgressInit /\ NormIdle /\ MatchIdle /\ ScoreIdle /\ ConnIdle /\ RoundIdle /\ PurchaseIdle /\ SetupIdle /\ AccuracyIdle /\ CloseIdle
NextProgress ==
    \/ \E k \in Recorders, q \in QuestionIds \cup {UnknownQuestion},
          a \in AnswerInputs : RecordBegin(k, q, a[1], a[2])
    \/ \E k \in Recorders : RecordReadStats(k)
    \/ \E k \in Recorders : RecordStreak(k)
    \/ \E k \in Recorders : RecordAccuracy(k)
    \/ \E k \in Recorders : RecordUpdate(k)
    \/ \E k \in Recorders : RecordFails(k)
    \/ \E gameMode \in GameModes, packId \in PackIds \cup {NoPack} :
          GetUnansweredQuestion(gameMode, packId)
SpecProgress == InitProgress /\ [][NextProgress]_vars

InitRound ==
    RoundInit /\ NormIdle /\ MatchIdle /\ ScoreIdle /\ ConnIdle /\ ProgressIdle /\ PurchaseIdle /\ SetupIdle /\ AccuracyIdle /\ CloseIdle
NextRound ==
    \/ TypeGuess
    \/ HandleSkip
    \/ \E hintType \in {"position", "nationality"} : HandleRevealHint(hintType)
    \/ \E isCorrect \in BOOLEAN : HandleGuess(isCorrect)
    \/ \E i \in 1..MaxPending : RecordResolved(i)
    \/ \E i \in 1..MaxPending : RecordRejected(i)
    \/ HandleNext
SpecRound == InitRound /\ [][NextRound]_vars

InitFull ==
    FullInit /\ NormIdle /\ MatchIdle /\ ScoreIdle /\ ConnIdle /\ ProgressIdle /\ PurchaseIdle /\ SetupIdle /\ AccuracyIdle /\ CloseIdle
NextFull ==
    \/ TypeGuess
    \/ \E isCorrect \in BOOLEAN : HandleGuessFull(isCorrect)
    \/ \E i \in 1..MaxRecordCalls : RecordResolved(i)
    \/ \E i \in 1..MaxRecordCalls : RecordRejected(i)
    \/ HandleNext
SpecFull == InitFull /\ [][NextFull]_vars

InitPurchase ==
    PurchaseInit /\ ProgressInit /\ NormIdle /\ MatchIdle /\ ScoreIdle /\ ConnIdle /\ RoundIdle /\ SetupIdle /\ AccuracyIdle /\ CloseIdle
NextPurchase ==
    \/ \E k \in Purchasers, packId \in PackIds \cup {MissingPack} :
          MarkBegin(k, packId)
    \/ \E k \in Purchasers : MarkCheckExisting(k)
    \/ \E k \in Purchasers : MarkInsert(k)
    \/ GetPurchasedPacks
SpecPurchase == InitPurchase /\ [][NextPurchase]_vars

InitSetup ==
    SetupInit /\ NormIdle /\ MatchIdle /\ ScoreIdle /\ ConnIdle /\ RoundIdle /\ PurchaseIdle /\ AccuracyIdle /\ CloseIdle
NextSetup ==
    \/ InitializeDatabase
    \/ SeedDatabase
    \/ Initialized /\ Seeded /\ \E k \in Recorders, a \in AnswerInputs :
          RecordBegin(k, "q1", a[1], a[2])
    \/ \E k \in Recorders : RecordReadStats(k)
    \/ \E k \in Recorders : RecordStreak(k)
    \/ \E k \in Recorders : RecordAccuracy(k)
    \/ \E k \in Recorders : RecordUpdate(k)
    \/ \E k \in Recorders : RecordFails(k)
SpecSetup == InitSetup /\ [][NextSetup]_vars

InitAccuracy ==
    AccuracyInit /\ NormIdle /\ MatchIdle /\ ScoreIdle /\ ConnIdle /\ ProgressIdle /\ RoundIdle /\ PurchaseIdle /\ SetupIdle /\ CloseIdle
NextAccuracy == CalculateAccuracyRate
SpecAccuracy == InitAccuracy /\ [][NextAccuracy]_vars

InitOverlap ==
    OverlapInit /\ NormIdle /\ MatchIdle /\ ScoreIdle /\ ConnIdle /\ RoundIdle /\ PurchaseIdle /\ SetupIdle /\ AccuracyIdle /\ CloseIdle
NextOverlap ==
    \/ \E k \in Overlappers, q \in QuestionIds, a \in AnswerInputs :
          recPc[k] = "idle" /\ RecordBegin(k, q, a[1], a[2])
    \/ \E k \in Overlappers, q \in QuestionIds, a \in AnswerInputs :
          RecordBeginBusy(k, q, a[1], a[2])
    \/ \E k \in Overlappers : RecordReadStats(k)
    \/ \E k \in Overlappers : RecordStreak(k)
    \/ \E k \in Overlappers : RecordAccuracy(k)
    \/ \E k \in Overlappers : RecordUpdate(k)
SpecOverlap == InitOverlap /\ [][NextOverlap]_vars

InitConnClose ==
    ConnInit /\ CloseInit /\ NormIdle /\ MatchIdle /\ ScoreIdle /\ ProgressIdle /\ RoundIdle /\ PurchaseIdle /\ SetupIdle /\ AccuracyIdle
NextConnClose ==
    \/ \E c \in CloseCallers : calls < MaxCalls - 1 /\ GetDatabase(c)
    \/ \E i \in 1..MaxCalls : OpenDatabase(i)
    \/ \E i \in 1..MaxCalls : InitializeSchema(i)
    \/ \E c \in CloseCallers : InitializerResumes(c)
    \/ \E c \in CloseCallers : WaiterResumes(c)
    \/ \E k \in Closers \cup Resetters : CloseBegin(k)
    \/ \E k \in Closers \cup Resetters : CloseFinish(k)
    \/ \E k \in Resetters : ResetDelete(k)
SpecConnClose == InitConnClose /\ [][NextConnClose]_vars

----------------------------------------------------------------------------
\* C8: normalizing an already normalized name changes nothing:
\* normalize(normalize(s)) = normalize(s) for every string s.
NormalizeIdempotent == nPc = "twice" => nOut2 = nOut

\* a raw string that normalization really changes has been normalized twice
NormalizeIdempotentWitness ==
    /\ nPc = "twice"
    /\ nIn = <<"'", " ", "O~">>
    /\ nOut = <<"o">>
    /\ nOut2 = <<"o">>

----------------------------------------------------------------------------
(* Properties of validatePlayerGuess *)

Called == mPc = "done"
Present(field) == field \in DOMAIN result
MatchType == IF Present("matchType") THEN result.matchType ELSE "none"

\* the aliases column holds a JSON array of strings, or nothing
IsStringArray(v) ==
    v.type = "array" /\ \A i \in 1..Len(v.items) : v.items[i].type = "string"
WellFormedAliases(a) ==
    ~AliasesTruthy(a) \/ (a.text = "json" /\ IsStringArray(a.value))

\* the alias strings of a well-formed aliases column, in stored order
AliasList(a) ==
    IF AliasesTruthy(a) THEN [i \in 1..Len(a.value.items) |-> a.value.items[i].str]
    ELSE <<>>

\* the final whitespace-delimited token of a name
LastToken(name) ==
    LET t == trim(name)
        starts == {k \in 1..Len(t) :
                     /\ \A i \in k..Len(t) : t[i] \notin Whitespace
                     /\ k > 1 => t[k - 1] \in Whitespace}
    IN  IF t = <<>> THEN <<>>
        ELSE SubSeq(t, CHOOSE k \in starts : TRUE, Len(t))

SameName(a, b) == normalizePlayerName(a) = normalizePlayerName(b)
MatchesName == SameName(guess, player.name)
MatchesFullName ==
    ~player.full_name.isNull /\ SameName(guess, player.full_name.str)
MatchingAliases ==
    {i \in 1..Len(AliasList(player.aliases)) :
        SameName(guess, AliasList(player.aliases)[i])}
MatchesLastName ==
    /\ Len(LastToken(player.name)) > 3
    /\ SameName(guess, LastToken(player.name))
Min(S) == CHOOSE x \in S : \A y \in S : x <= y

\* C1: the stages are tried in the order name, full name, aliases in stored
\* order, last name, after the empty-guess check that opens the algorithm,
\* and the result is that of the first stage that matches; the accepted
\* alias is the first matching alias exactly as stored.
PriorityOrder ==
    (Called /\ WellFormedAliases(player.aliases)) =>
        result =
          IF normalizePlayerName(guess) = <<>> THEN [isCorrect |-> FALSE]
          ELSE IF MatchesName THEN
            [isCorrect |-> TRUE, matchType |-> "exact",
             acceptedAnswer |-> player.name]
          ELSE IF MatchesFullName THEN
            [isCorrect |-> TRUE, matchType |-> "full_name",
             acceptedAnswer |-> player.full_name.str]
          ELSE IF MatchingAliases # {} THEN
            [isCorrect |-> TRUE, matchType |-> "alias",
             acceptedAnswer |-> AliasList(player.aliases)[Min(MatchingAliases)]]
          ELSE IF MatchesLastName THEN
            [isCorrect |-> TRUE, matchType |-> "last_name",
             acceptedAnswer |-> LastToken(player.name)]
          ELSE [isCorrect |-> FALSE]

\* a guess equal to the last name and to two aliases is reported as the
\* first alias, in its stored spelling
PriorityOrderWitness ==
    /\ Called
    /\ player.name = Eto \o SP \o Ozil
    /\ player.full_name.isNull
    /\ player.aliases = JsonText(JArray(<<JString(Ozil), JString(ozil)>>))
    /\ guess = ozil \/ guess = Ozil
    /\ MatchesLastName
    /\ result = [isCorrect |-> TRUE, matchType |-> "alias",
                 acceptedAnswer |-> Ozil]

\* C2 as stated: guessing the canonical name of any target is an 'exact'
\* match.
NameSelfMatchesAlways ==
    (Called /\ guess = player.name) =>
        (result.isCorrect /\ MatchType = "exact")

\* C2: guessing the canonical name of a target is an 'exact' match whenever
\* the name keeps at least one character under normalization, also when the
\* name is listed among the aliases.
NameSelfMatches ==
    (Called /\ guess = player.name /\ normalizePlayerName(player.name) # <<>>) =>
        (result.isCorrect /\ MatchType = "exact"
           /\ result.acceptedAnswer = player.name)

\* the name is also an alias and the last name, and it is guessed
NameSelfMatchesWitness ==
    /\ Called
    /\ guess = player.name
    /\ player.name = Ozil
    /\ player.aliases = JsonText(JArray(<<JString(Ozil)>>))
    /\ MatchType = "exact"

\* C3 as stated: guessing any alias of the target is an 'alias' match.
AliasAlwaysMatchesAsAlias ==
    (Called /\ WellFormedAliases(player.aliases)) =>
        \A i \in 1..Len(AliasList(player.aliases)) :
            guess = AliasList(player.aliases)[i] =>
                (result.isCorrect /\ MatchType = "alias")

\* C3: guessing an alias that keeps at least one character under
\* normalization is correct, and it is an 'alias' match unless the guess
\* also equals the canonical name ('exact') or the full name ('full_name').
AliasMatches ==
    (Called /\ WellFormedAliases(player.aliases)) =>
        \A i \in 1..Len(AliasList(player.aliases)) :
            (guess = AliasList(player.aliases)[i]
               /\ normalizePlayerName(guess) # <<>>) =>
                /\ result.isCorrect
                /\ MatchType = IF MatchesName THEN "exact"
                               ELSE IF MatchesFullName THEN "full_name"
                               ELSE "alias"

\* the second alias of the list is guessed and accepted as an alias
AliasMatchesWitness ==
    /\ Called
    /\ player.aliases = JsonText(JArray(<<JString(Ozil), JString(Eto)>>))
    /\ guess = Eto
    /\ result = [isCorrect |-> TRUE, matchType |-> "alias",
                 acceptedAnswer |-> Eto]

\* C4: when the last token of the canonical name has at most 3 characters,
\* the result is never a 'last_name' match, and a correct result is owed to
\* the name, the full name or an alias.
ShortLastNameNeverMatches ==
    (Called /\ Len(LastToken(player.name)) <= 3) =>
        /\ MatchType # "last_name"
        /\ (result.isCorrect /\ WellFormedAliases(player.aliases)) =>
              (MatchesName \/ MatchesFullName \/ MatchingAliases # {})

\* the three-letter last name of a two-word name is guessed and rejected
ShortLastNameWitness ==
    /\ Called
    /\ player.name = Ozil \o SP \o Eto
    /\ guess = Eto
    /\ result = [isCorrect |-> FALSE]

\* C5: with an aliases column that is not a JSON array of strings, the
\* result is the one the same target without aliases would get.
MalformedAliasesSkipped ==
    (Called /\ ~WellFormedAliases(player.aliases)) =>
        result = validatePlayerGuess(guess, [player EXCEPT !.aliases = NoAliases])

\* C6: the result carries matchType and acceptedAnswer exactly when it is
\* correct.
MatchFieldsIffCorrect ==
    Called =>
        /\ Present("matchType") <=> result.isCorrect
        /\ Present("acceptedAnswer") <=> result.isCorrect

\* a last-name match carrying both fields
MatchFieldsWitness ==
    /\ Called
    /\ result = [isCorrect |-> TRUE, matchType |-> "last_name",
                 acceptedAnswer |-> Ozil]

\* C7: a guess that normalizes to the empty string is not correct, whatever
\* the target.
EmptyGuessRejected ==
    (Called /\ normalizePlayerName(guess) = <<>>) => result = [isCorrect |-> FALSE]

\* a guess made only of stripped characters, against a name that also
\* normalizes to the empty string
EmptyGuessWitness ==
    /\ Called
    /\ guess = Ya
    /\ player.name = Ya \o Ya
    /\ normalizePlayerName(player.name) = normalizePlayerName(guess)
    /\ ~result.isCorrect

----------------------------------------------------------------------------
(* Properties of calculateCareerPathScore *)

Scored == sPc = "done"
InRange == 1 <= clubsRevealed /\ clubsRevealed <= totalClubs

----------------------------------------------------------------------------
(* Properties of calculateTransferScore *)

TransferScored == tPc = "done"
HintCount ==
    (IF hintsRevealed.position THEN 1 ELSE 0)
      + (IF hintsRevealed.nationality THEN 1 ELSE 0)

----------------------------------------------------------------------------
(* Properties of getDatabase *)

Started == Len(promises)         \* initializations started so far
Succeeded == {i \in 1..Len(promises) : promises[i].state = "fulfilled"}
Running == {i \in 1..Len(promises) : ~Settled(i)}

\* C13 as stated: whatever the getDatabase calls, the database is opened
\* and initialized at most once.
InitializedAtMostOnce == Started <= 1 /\ PurchaseIdle /\ SetupIdle /\ AccuracyIdle /\ CloseIdle

\* C13: at most one initialization runs at a time and at most one ever
\* succeeds; a further one is started only after every earlier one has
\* failed.  Overlapping callers share one initialization and its outcome,
\* and every call that returns, then or later, returns the one instance.
SingleInitialization ==
    /\ Cardinality(Running) <= 1
    /\ Cardinality(Succeeded) <= 1
    /\ \A i \in 1..(Started - 1) : promises[i].state = "rejected"
    /\ \A c \in Callers :
         callPc[c] \in {"initializing", "waiting"} =>
            \/ promises[callPromise[c]].state = "rejected"
            \/ callPromise[c] = Started
    /\ \A c \in Callers :
         callPc[c] = "returned" =>
            /\ isInitialized
            /\ callResult[c] # NoDatabase
            /\ callResult[c] = databaseInstance
            /\ Succeeded # {}

\* two calls overlapped one initialization and a third came after it; all
\* three hold the same instance and the database was opened once
SingleInitializationWitness ==
    /\ Started = 1
    /\ nextHandle = 2
    /\ calls >= 3
    /\ \A c \in Callers : callPc[c] = "returned" /\ callResult[c] = 1
    /\ \E c \in Callers : callPromise[c] = NoPromise
    /\ Cardinality({c \in Callers : callPromise[c] = 1}) = 2

----------------------------------------------------------------------------
(* Properties of recordQuestionAnswer and getUnansweredQuestion *)

\* no recordQuestionAnswer call is between its first and last statement
Quiescent == \A k \in Recorders : ~InProgress(k)
Resolves(k) == recPc[k] = "accuracy" /\ recPc'[k] = "resolved"

RECURSIVE SumScores(_)
SumScores(rows) ==
    IF rows = <<>> THEN 0
    ELSE rows[Len(rows)].score_earned + SumScores(SubSeq(rows, 1, Len(rows) - 1))

\* number of consecutive correct answers at the end of the history
RECURSIVE TrailingRun(_)
TrailingRun(rows) ==
    IF rows = <<>> \/ rows[Len(rows)].answered_correctly # 1 THEN 0
    ELSE 1 + TrailingRun(SubSeq(rows, 1, Len(rows) - 1))

\* longest run of consecutive correct answers anywhere in the history
LongestRun(rows) ==
    LET runs == {TrailingRun(SubSeq(rows, 1, n)) : n \in 0..Len(rows)}
    IN  CHOOSE r \in runs : \A o \in runs : o <= r

\* the rows and the stats that the resolved calls, and only they, account for
RowsOf(args) ==
    [i \in 1..Len(args) |->
        ProgressRow(args[i].questionId, args[i].correct, args[i].score)]
StatsOf(rows) ==
    [total_questions_answered |-> Len(rows),
     total_score |-> SumScores(rows),
     current_streak |-> TrailingRun(rows),
     best_streak |-> LongestRun(rows)]
CountsOf(stats) ==
    [total_questions_answered |-> stats.total_questions_answered,
     total_score |-> stats.total_score,
     current_streak |-> stats.current_streak,
     best_streak |-> stats.best_streak]

\* C14: recordQuestionAnswer is all-or-nothing: whenever no call is under
\* way, user_progress holds exactly the rows of the calls that resolved, in
\* order, and user_stats is what those calls alone produce; a rejected call
\* leaves neither a row nor a change of the stats.
RecordAllOrNothing ==
    Quiescent =>
        /\ user_progress = RowsOf(answers)
        /\ CountsOf(user_stats) = StatsOf(RowsOf(answers))
        /\ SameRatio(user_stats.accuracy_rate,
                     calculateAccuracyRate(RowsOf(answers)))
        /\ txnSnapshot = NoTxn

\* a call was rejected after two had resolved, and both tables show two
RecordAllOrNothingWitness ==
    /\ recPc["call"] = "rejected"
    /\ Len(answers) = 2
    /\ Len(user_progress) = 2
    /\ user_stats.total_questions_answered = 2

\* C15: every resolved call sets current_streak to
\* calculateStreak(previous current_streak, correct), and current_streak is
\* the number of consecutive correct answers at the end of the history.
StreakFollowsHistory ==
    /\ [][\A k \in Recorders : Resolves(k) =>
            user_stats'.current_streak =
                calculateStreak(user_stats.current_streak, recArgs[k].correct)]_vars
    /\ [](Quiescent => user_stats.current_streak = TrailingRun(user_progress))

\* wrong, right, right: the streak is 2
StreakWitness ==
    /\ Quiescent
    /\ Len(user_progress) = 3
    /\ user_progress[1].answered_correctly = 0
    /\ user_stats.current_streak = 2

\* C16: best_streak >= current_streak, best_streak never decreases, and
\* best_streak is the longest run of consecutive correct answers.
BestStreakIsLongestRun ==
    /\ [][user_stats'.best_streak >= user_stats.best_streak]_vars
    /\ [](Quiescent =>
            /\ user_stats.best_streak >= user_stats.current_streak
            /\ user_stats.best_streak = LongestRun(user_progress))

\* right, right, wrong: the best streak stays 2 when the streak is reset
BestStreakWitness ==
    /\ Quiescent
    /\ Len(user_progress) = 3
    /\ user_stats.best_streak = 2
    /\ user_stats.current_streak = 0

\* C17: total_questions_answered is the number of user_progress rows and
\* total_score the sum of their score_earned.
TotalsMatchProgress ==
    Quiescent =>
        /\ user_stats.total_questions_answered = Len(user_progress)
        /\ user_stats.total_score = SumScores(user_progress)

\* three answers worth 3, 0 and 1
TotalsWitness ==
    /\ Quiescent
    /\ Len(user_progress) = 3
    /\ user_progress[1].score_earned = 3
    /\ user_progress[3].score_earned = 1
    /\ user_stats.total_score = 4

\* C18: the stored accuracy_rate is correct rows / rows (0 with no rows),
\* lies in [0, 1], and is what calculateAccuracyRate() recomputes from
\* user_progress.
AccuracyMatchesProgress ==
    Quiescent =>
        LET rate == user_stats.accuracy_rate
        IN  /\ rate.den > 0 /\ 0 <= rate.num /\ rate.num <= rate.den
            /\ Len(user_progress) > 0 =>
                 SameRatio(rate, Ratio(CountCorrect(user_progress),
                                       Len(user_progress)))
            /\ SameRatio(rate, calculateAccuracyRate(user_progress))

\* one right answer out of two: the stored rate is a half
AccuracyWitness ==
    /\ Quiescent
    /\ Len(user_progress) = 2
    /\ user_stats.accuracy_rate = Ratio(1, 2)

\* the questions getUnansweredQuestion may draw from
Eligible(gameMode, packId) ==
    {q \in questions :
        /\ q.game_mode = gameMode
        /\ IF packId = NoPack
           THEN \E i \in 1..Len(user_purchased_packs) :
                    user_purchased_packs[i] = q.pack_id
           ELSE q.pack_id = packId}
HasCorrectAnswer(q) ==
    \E i \in 1..Len(user_progress) :
        /\ user_progress[i].question_id = q.id
        /\ user_progress[i].answered_correctly = 1
UnansweredReturns == uqArgs' # uqArgs \/ uqResult' # uqResult

\* C19: getUnansweredQuestion returns only eligible questions with no
\* correct answer recorded, and returns null exactly when every eligible
\* question has a correct answer (so a question answered only incorrectly
\* is still returned).
UnansweredNeverCorrect ==
    [][UnansweredReturns =>
        LET open == {q \in Eligible(uqArgs'.gameMode, uqArgs'.packId) :
                        ~HasCorrectAnswer(q)}
        IN  /\ uqResult' = NoQuestion <=> open = {}
            /\ uqResult' # NoQuestion => uqResult' \in open]_vars

\* q1 was answered wrong and then right; asked without a pack, the query
\* finds no career_path question left, q3 being in a pack not purchased
UnansweredWitness ==
    /\ Quiescent
    /\ Len(user_progress) = 2
    /\ user_progress[1] = ProgressRow("q1", FALSE, 0)
    /\ user_progress[2].question_id = "q1"
    /\ user_progress[2].answered_correctly = 1
    /\ uqArgs = [gameMode |-> "career_path", packId |-> NoPack]
    /\ uqResult = NoQuestion

----------------------------------------------------------------------------
(* Properties of a round on the progressive and transfer screens *)

\* a correct guess was made on the question of this round
CorrectGuessMade ==
    \E i \in 1..Len(recordCalls) : recordCalls[i].correct
\* the round is over: a correct guess or the 5th wrong guess was made
RoundEnded ==
    CorrectGuessMade \/ screenWrongGuesses >= MAX_WRONG_GUESSES
\* handleGuess handles a guess: it counts it as wrong or records an answer
GuessProcessed ==
    \/ screenWrongGuesses' > screenWrongGuesses
    \/ Len(recordCalls') > Len(recordCalls)

\* C20: wrongGuesses never exceeds MAX_WRONG_GUESSES; the 5th wrong guess
\* records an incorrect answer with score 0; once a correct guess or the
\* 5th wrong guess was made no further guess is processed.
RoundEndsAtFiveWrong ==
    /\ [](screenWrongGuesses <= MAX_WRONG_GUESSES)
    /\ [](\A i \in 1..Len(recordCalls) :
            ~recordCalls[i].correct =>
                /\ recordCalls[i].score = 0
                /\ recordCalls[i].attempts = MAX_WRONG_GUESSES)
    /\ [][RoundEnded => ~GuessProcessed]_vars

----------------------------------------------------------------------------
(* Properties of the Career Path Full screen *)

\* C21: in Career Path Full mode recordQuestionAnswer is invoked at most
\* once for each loaded question, also when the guess action is triggered
\* again before the first recording has completed.
FullModeSingleGuess == Len(recordCalls) <= 1

----------------------------------------------------------------------------
(* Properties of purchases *)

PurchaseRows(packId) ==
    Cardinality({i \in 1..Len(user_purchased_packs) :
                    user_purchased_packs[i] = packId})
ListedTimes(packId) ==
    Cardinality({i \in 1..Len(purchasedList) : purchasedList[i] = packId})

\* C22: once a markPackAsPurchased call for an existing pack has returned,
\* whatever other calls ran or overlapped it, user_purchased_packs holds
\* exactly one row of that pack and getPurchasedPacks lists the pack once.
PurchasedExactlyOnce ==
    \A k \in DOMAIN markPc :
        markPc[k] = "done" =>
            /\ PurchaseRows(markPack[k]) = 1
            /\ ListedTimes(markPack[k]) <= 1

----------------------------------------------------------------------------
(* Properties of the database setup *)

\* initializeDatabase or seedDatabase is run on a database that is
\* initialized and seeded
SetupRerun ==
    /\ Len(setupLog') > Len(setupLog)
    /\ Initialized /\ Seeded

\* C23: running initializeDatabase or seedDatabase again on a database that
\* is initialized and seeded leaves the contents of every table as they
\* were: no seed row is duplicated (the starter pack stays purchased once)
\* and user_stats still holds its one row with the values it had.
SetupIdempotent ==
    /\ [][SetupRerun =>
            UNCHANGED <<dbTables, seedTables, sync_metadata, user_progress,
                        user_stats, user_purchased_packs>>]_vars
    /\ [](Seeded => /\ seedTables = SeedRows
                    /\ PurchaseRows("starter-pack") = 1)
    /\ [](Initialized => user_stats # NoStats)

\* both setup functions were run again after an answer was recorded
SetupIdempotentWitness ==
    /\ \E i \in 1..Len(setupLog) :
          /\ setupLog[i].op = "initializeDatabase"
          /\ setupLog[i].rerun /\ setupLog[i].played
    /\ \E i \in 1..Len(setupLog) :
          /\ setupLog[i].op = "seedDatabase"
          /\ setupLog[i].rerun /\ setupLog[i].played
    /\ user_stats.total_questions_answered > 0

----------------------------------------------------------------------------
(* Properties of calculateAccuracyRate *)

AbsDiff(a, b) == IF a >= b THEN a - b ELSE b - a

\* h hundredths is x = num / den rounded to two decimals: no number of two
\* decimals is nearer to x
RoundedToTwoDecimals(h, num, den) == 2 * AbsDiff(h * den, 100 * num) <= den

\* C24: for 0 <= correctSoFar <= totalSoFar the accuracy rate is
\* 100 * (correctSoFar + (1 if newly correct)) / (totalSoFar + 1) rounded
\* to two decimals and lies in [0, 100]; (0, 0, true) gives 100 and
\* (5, 10, false) gives 45.45.
AccuracyRateRounded ==
    aPc = "done" /\ aCorrect <= aTotal =>
        /\ RoundedToTwoDecimals(aRate,
              100 * (aCorrect + (IF aNewly THEN 1 ELSE 0)),
              aTotal + 1)
        /\ aRate >= 0 /\ aRate <= 100 * 100
        /\ (aCorrect = 0 /\ aTotal = 0 /\ aNewly
               => aRate = 100 * 100)
        /\ (aCorrect = 5 /\ aTotal = 10 /\ ~aNewly
               => aRate = 4545)

\* 5 correct of 10 and a wrong answer: 45.4545... was rounded to 45.45
AccuracyRateWitness ==
    /\ aPc = "done"
    /\ aCorrect = 5 /\ aTotal = 10 /\ ~aNewly
    /\ aRate = 4545

----------------------------------------------------------------------------
(* Properties of overlapping recordQuestionAnswer calls *)

\* both calls were made and have completed
BothCompleted ==
    /\ DOMAIN recPc = Overlappers
    /\ \A k \in Overlappers : recPc[k] \in {"resolved", "rejected"}

\* C25: when two recordQuestionAnswer calls overlap, user_progress and
\* user_stats end as if the two calls had run one after the other in some
\* order: both rows are there and no update of the totals, the streaks or
\* the accuracy is lost.
OverlappingCallsSerial ==
    BothCompleted =>
        /\ Len(user_progress) = 2
        /\ user_stats.total_questions_answered = 2
        /\ user_stats.total_score = SumScores(user_progress)
        /\ user_stats.current_streak = TrailingRun(user_progress)
        /\ user_stats.best_streak = LongestRun(user_progress)
        /\ SameRatio(user_stats.accuracy_rate,
                     Ratio(CountCorrect(user_progress), 2))

----------------------------------------------------------------------------
(* Properties of the potential score *)

\* handleNext: the result modal is closed and the next question is loaded
NextQuestionLoaded == showResult /\ ~showResult'

\* C26: within a round the potential score shown never increases: no Skip,
\* auto-reveal, wrong guess or hint reveal raises it.
PotentialScoreNeverIncreases ==
    [][~NextQuestionLoaded => potentialScore' <= potentialScore]_vars

\* on the progressive screen the score went down from 3 to 1, on the
\* transfer screen both hints are revealed and one point is left
PotentialScoreWitness ==
    \/ /\ screenMode = "progressive"
       /\ currentClubIndex > 0 /\ screenWrongGuesses > 0
       /\ potentialScore = 1
    \/ /\ screenMode = "transfer"
       /\ screenHints.position /\ screenHints.nationality
       /\ potentialScore = 1

\* handleGuess found the guess correct and calls recordQuestionAnswer
CorrectGuessRecorded ==
    /\ Len(recordCalls') = Len(recordCalls) + 1
    /\ recordCalls'[Len(recordCalls')].correct

\* C27: the score recorded for a correct guess is the potential score that
\* was shown just before the guess, on the progressive and on the transfer
\* screen.
RecordedScoreIsPotentialScore ==
    [][CorrectGuessRecorded =>
          recordCalls'[Len(recordCalls')].score = potentialScore]_vars

\* a correct guess after a skip and a wrong guess was recorded with less
\* than the full score
RecordedScoreWitness ==
    /\ screenMode = "progressive"
    /\ currentClubIndex > 0 /\ screenWrongGuesses > 0
    /\ Len(recordCalls) > 0
    /\ recordCalls[Len(recordCalls)].correct
    /\ recordCalls[Len(recordCalls)].score = potentialScore
    /\ potentialScore < 3

----------------------------------------------------------------------------
(* Properties of the reveal index of the progressive screen *)

\* a wrong guess that leaves the round open
WrongGuessGoesOn ==
    /\ screenWrongGuesses' = screenWrongGuesses + 1
    /\ screenWrongGuesses' < MAX_WRONG_GUESSES

\* C28: on the progressive screen 0 <= currentClubIndex <= careers.length
\* - 1; within a round the index never decreases and nothing moves it once
\* the last club is shown (Skip is a no-op there); a wrong guess that does
\* not end the round reveals exactly one more club unless all are shown;
\* loading the next question resets the index and wrongGuesses to 0.
RevealIndexInRange ==
    /\ [](screenMode = "progressive" =>
            0 <= currentClubIndex /\ currentClubIndex <= careersLength - 1)
    /\ [][screenMode = "progressive" /\ ~NextQuestionLoaded =>
            /\ currentClubIndex' >= currentClubIndex
            /\ currentClubIndex = careersLength - 1 =>
                 currentClubIndex' = currentClubIndex
            /\ WrongGuessGoesOn =>
                 currentClubIndex' =
                    IF currentClubIndex < careersLength - 1
                    THEN currentClubIndex + 1 ELSE currentClubIndex]_vars
    /\ [][screenMode = "progressive" /\ NextQuestionLoaded /\ ~screenError' =>
            currentClubIndex' = 0 /\ screenWrongGuesses' = 0]_vars

\* all three clubs are shown and two wrong guesses were made
RevealIndexWitness ==
    /\ screenMode = "progressive"
    /\ careersLength = 3 /\ currentClubIndex = 2
    /\ screenWrongGuesses = 2
    /\ ~showResult

----------------------------------------------------------------------------
(* Properties of the result modal *)

\* C29: whenever the result modal is visible, an answer was recorded for
\* the round on screen, finalScore is the score recorded with it, and
\* finalScore > 0 exactly when that answer was correct.
ResultMatchesRecord ==
    showResult =>
        \E i \in 1..Len(recordCalls) :
            /\ recordCalls[i].score = screenFinalScore
            /\ screenFinalScore > 0 <=> recordCalls[i].correct

----------------------------------------------------------------------------
(* Properties of closeDatabaseAsync and resetDatabaseAsync *)

\* no getDatabase, closeDatabaseAsync or resetDatabaseAsync call is under
\* way, and no initialization either
AllCallsCompleted ==
    /\ \A c \in DOMAIN callPc : callPc[c] \in {"idle", "returned", "thrown"}
    /\ \A k \in DOMAIN closePc : closePc[k] \in {"idle", "done", "thrown"}
    /\ \A i \in 1..Len(promises) : Settled(i)

\* the handles whose initialization succeeded and that were not closed
OpenInitialized ==
    {h \in 1..(nextHandle - 1) :
        /\ h \notin closedHandles
        /\ \E i \in 1..Len(promises) : promises[i] = Fulfilled(h)}

\* C30: under any interleaving of getDatabase, closeDatabaseAsync and
\* resetDatabaseAsync calls getDatabaseStatus never reports isInitialized
\* = true with isConnected = false, and once all calls have completed at
\* most one initialization has left an open, initialized instance.
StatusConsistentUnderClose ==
    /\ getDatabaseStatus.isInitialized => getDatabaseStatus.isConnected
    /\ AllCallsCompleted => Cardinality(OpenInitialized) <= 1

====
